---- MODULE Spec2Model ----
(***************************************************************************)
(* Secure credential storage (core/storage) and the session lifecycle of   *)
(* MatrixClient (core/matrix_client/structs.rs) of skiffy-messenger.       *)
(*                                                                         *)
(* A storage instance is the record                                        *)
(*   [backend, data, platform, keys]                                       *)
(* backend  : which adapter the instance is (its Rust type)                *)
(* data     : InMemoryStorage.data, a HashMap (a function on present keys) *)
(* platform : the OS secret store reached through security_framework or    *)
(*            keyring, a map from account name to secret                   *)
(* keys     : the tracked-key HashSet of WindowsStorage / LinuxStorage     *)
(* procs    : the local state of the tasks that share the instance         *)
(* Every trait method is an operator from (instance, arguments, platform   *)
(* outcome) to [s, result, calls]: the instance afterwards, the Result it  *)
(* returns and the platform calls it issued, in order.                     *)
(***************************************************************************)
EXTENDS Integers, Sequences, FiniteSets, TLC

VARIABLES procs, host, backend, data, platform, keys, user_id, device_id, expect, written, last

vars == <<procs, host, backend, data, platform, keys, user_id, device_id, expect, written, last>>

(***************************************************************************)
(* Bounds of the model.                                                    *)
(***************************************************************************)
NumKeys == 2

KeyNames == <<"test_key", "key2", "key3", "key4">>

EmptyKey == ""
UserKeys == {KeyNames[i] : i \in 1..NumKeys}
Keys == {EmptyKey} \cup UserKeys
Values == {"test_value", "new_value"}

None == "None"

EmptyMap == [x \in {} |-> None]
PartialMaps(K, V) == UNION {[D -> V] : D \in SUBSET K}

(***************************************************************************)
(* HashMap / HashSet primitives.                                           *)
(***************************************************************************)
MapInsert(m, k, v) == [x \in DOMAIN m \cup {k} |-> IF x = k THEN v ELSE m[x]]
MapRemove(m, k) == [x \in DOMAIN m \ {k} |-> m[x]]

(***************************************************************************)
(* SecureStorageError and SessionStatus.                                   *)
(***************************************************************************)
Ok == [kind |-> "Ok"]
OkValue(v) == [kind |-> "Ok", value |-> v]
KeyNotFound(k) == [kind |-> "KeyNotFound", key |-> k]
AccessDenied(k) == [kind |-> "AccessDenied", key |-> k]
BackendNotAvailable == [kind |-> "BackendNotAvailable"]
InvalidInput == [kind |-> "InvalidInput"]
Internal == [kind |-> "Internal"]
InternalFailed(ks) == [kind |-> "Internal", failed |-> ks]
Panic == [kind |-> "Panic"]

ErrorKinds == {"KeyNotFound", "AccessDenied", "BackendNotAvailable", "InvalidInput", "Internal"}

Backends == {"memory", "keychain", "windows", "linux"}
Tracking == {"windows", "linux"}

(* Entry::new(..).expect(..) of the Windows adapter unwinds instead of     *)
(* returning when the entry handle cannot be created.                      *)
Unwinds(b, f) == b = "windows" /\ f.at = "entry"

(* The target_os the build is for (factory.rs cfg attributes): "macos" is  *)
(* macOS or iOS, "other" any target without a native facility.  HostOf: the host an adapter      *)
(* type is compiled for (the in-memory adapter exists on every host).      *)
Hosts == {"macos", "windows", "linux", "other"}
HostOf(b) ==
    CASE b = "keychain" -> "macos"
      [] b = "windows" -> "windows"
      [] b = "linux" -> "linux"
      [] OTHER -> "other"

Out(s, r, c) == [s |-> s, result |-> r, calls |-> c]

(***************************************************************************)
(* Outcomes of one platform interaction.  at = "none": every platform call *)
(* of the operation answers from the store's content.  Otherwise the named *)
(* step fails: "entry" is keyring::Entry::new, "join" the spawn_blocking   *)
(* join, "call" the platform call itself with a keyring error (err, and    *)
(* for PlatformFailure the marker words its text contains) or a keychain   *)
(* status code, "utf8" the decoding of the bytes a keychain get returned.  *)
(***************************************************************************)
errSecItemNotFound == -25300
errSecAuthFailed == -25293
userCanceledErr == -128
errSecOther == -25291

Fault(at, err, msg, code) == [at |-> at, err |-> err, msg |-> msg, code |-> code]
NoFault == Fault("none", "", {}, 0)

Messages == {{}, {"denied"}, {"cancelled"}, {"dbus"}, {"access", "Secret Service"}, {"keyring"}}

KeyringFaults ==
    {NoFault, Fault("entry", "", {}, 0), Fault("join", "", {}, 0),
     Fault("call", "Ambiguous", {}, 0), Fault("call", "BadEncoding", {}, 0)}
    \cup {Fault("call", "PlatformFailure", m, 0) : m \in Messages}

KeychainFaults ==
    {NoFault, Fault("join", "", {}, 0), Fault("utf8", "", {}, 0)}
    \cup {Fault("call", "", {}, c) : c \in {errSecAuthFailed, userCanceledErr, errSecOther}}

FaultsOf(b) ==
    CASE b = "memory" -> {NoFault}
      [] b = "keychain" -> KeychainFaults
      [] OTHER -> KeyringFaults


(***************************************************************************)
(* InMemoryStorage (memory.rs).  The RwLock makes each method one step; no *)
(* platform is involved.                                                   *)
(***************************************************************************)
(* Mutant: insert only when the key is vacant (entry().or_insert).         *)
MemSetKeepsExisting(s, key, value) ==
    IF key = EmptyKey THEN Out(s, InvalidInput, <<>>)
    ELSE IF key \in DOMAIN s.data THEN Out(s, Ok, <<>>)
    ELSE Out([s EXCEPT !.data = MapInsert(s.data, key, value)], Ok, <<>>)

(* Mutant: the map is rebuilt from the pair being stored.                  *)
MemSetReplacesMap(s, key, value) ==
    IF key = EmptyKey THEN Out(s, InvalidInput, <<>>)
    ELSE Out([s EXCEPT !.data = MapInsert(EmptyMap, key, value)], Ok, <<>>)

MemSet(s, key, value) ==
    IF key = EmptyKey THEN Out(s, InvalidInput, <<>>)
    ELSE Out([s EXCEPT !.data = MapInsert(s.data, key, value)], Ok, <<>>)

(* Mutant: a missing key reads as the default string (unwrap_or_default).  *)
MemGetDefault(s, key) ==
    IF key = EmptyKey THEN Out(s, InvalidInput, <<>>)
    ELSE IF key \in DOMAIN s.data THEN Out(s, OkValue(s.data[key]), <<>>)
    ELSE Out(s, OkValue(""), <<>>)

MemGet(s, key) ==
    IF key = EmptyKey THEN Out(s, InvalidInput, <<>>)
    ELSE IF key \in DOMAIN s.data THEN Out(s, OkValue(s.data[key]), <<>>)
    ELSE Out(s, KeyNotFound(key), <<>>)

(* Mutant: removing a key that is not stored is reported as KeyNotFound.   *)
MemDeleteStrict(s, key) ==
    IF key = EmptyKey THEN Out(s, InvalidInput, <<>>)
    ELSE IF key \notin DOMAIN s.data THEN Out(s, KeyNotFound(key), <<>>)
    ELSE Out([s EXCEPT !.data = MapRemove(s.data, key)], Ok, <<>>)

MemDelete(s, key) ==
    IF key = EmptyKey THEN Out(s, InvalidInput, <<>>)
    ELSE Out([s EXCEPT !.data = MapRemove(s.data, key)], Ok, <<>>)

MemClear(s) == Out([s EXCEPT !.data = EmptyMap], Ok, <<>>)

(***************************************************************************)
(* KeychainStorage (keychain.rs).  A platform call that fails leaves the   *)
(* keychain as it was; a lookup or delete of an absent item answers        *)
(* errSecItemNotFound.                                                     *)
(***************************************************************************)
map_keychain_error(code, key) ==
    CASE code = errSecItemNotFound -> KeyNotFound(key)
      [] code \in {errSecAuthFailed, userCanceledErr} -> AccessDenied(key)
      [] OTHER -> Internal

KeychainSet(s, key, value, f) ==
    IF key = EmptyKey THEN Out(s, InvalidInput, <<>>)
    ELSE IF f.at = "join" THEN Out(s, Internal, <<"set_generic_password">>)
    ELSE IF f.at = "call" THEN Out(s, map_keychain_error(f.code, key), <<"set_generic_password">>)
    ELSE Out([s EXCEPT !.platform = MapInsert(s.platform, key, value)], Ok,
             <<"set_generic_password">>)

KeychainGet(s, key, f) ==
    IF key = EmptyKey THEN Out(s, InvalidInput, <<>>)
    ELSE IF f.at = "join" THEN Out(s, Internal, <<"get_generic_password">>)
    ELSE IF f.at = "call" THEN Out(s, map_keychain_error(f.code, key), <<"get_generic_password">>)
    ELSE IF key \notin DOMAIN s.platform
         THEN Out(s, map_keychain_error(errSecItemNotFound, key), <<"get_generic_password">>)
    ELSE IF f.at = "utf8" THEN Out(s, Internal, <<"get_generic_password">>)
    ELSE Out(s, OkValue(s.platform[key]), <<"get_generic_password">>)

KeychainDelete(s, key, f) ==
    IF key = EmptyKey THEN Out(s, InvalidInput, <<>>)
    ELSE IF f.at = "join" THEN Out(s, Internal, <<"delete_generic_password">>)
    ELSE IF f.at = "call"
         THEN IF f.code = errSecItemNotFound
              THEN Out(s, Ok, <<"delete_generic_password">>)
              ELSE Out(s, map_keychain_error(f.code, key), <<"delete_generic_password">>)
    ELSE Out([s EXCEPT !.platform = MapRemove(s.platform, key)], Ok,
             <<"delete_generic_password">>)

(* Mutant: clear empties the store and reports success.                    *)
KeychainClearWipes(s) == Out([s EXCEPT !.platform = EmptyMap], Ok, <<>>)

KeychainClear(s) == Out(s, Internal, <<>>)

(***************************************************************************)
(* The keyring crate as both key-tracking adapters use it: the error a     *)
(* call produces when the platform answers from the store's content.       *)
(***************************************************************************)
NoEntry == Fault("call", "NoEntry", {}, 0)

Contains(msg, word) == word \in msg

(***************************************************************************)
(* WindowsStorage (windows.rs).                                            *)
(***************************************************************************)
windows_map_keyring_error(e, key) ==
    CASE e.err = "NoEntry" -> KeyNotFound(key)
      [] e.err = "PlatformFailure" ->
            IF Contains(e.msg, "access") \/ Contains(e.msg, "denied")
            THEN AccessDenied(key)
            ELSE Internal
      [] e.err = "Ambiguous" -> Internal
      [] OTHER -> Internal

(* Mutant: the key is tracked before the platform call is made.            *)
WindowsSetTracksFirst(s, key, value, f) ==
    IF key = EmptyKey THEN Out(s, InvalidInput, <<>>)
    ELSE IF f.at = "entry" THEN Out(s, Panic, <<"Entry::new">>)
    ELSE IF f.at = "join"
         THEN Out([s EXCEPT !.keys = s.keys \cup {key}], Internal, <<"Entry::new", "set_password">>)
    ELSE IF f.at = "call"
         THEN Out([s EXCEPT !.keys = s.keys \cup {key}], windows_map_keyring_error(f, key),
                  <<"Entry::new", "set_password">>)
    ELSE Out([s EXCEPT !.platform = MapInsert(s.platform, key, value),
                       !.keys = s.keys \cup {key}], Ok, <<"Entry::new", "set_password">>)

WindowsSet(s, key, value, f) ==
    IF key = EmptyKey THEN Out(s, InvalidInput, <<>>)
    ELSE IF f.at = "entry" THEN Out(s, Panic, <<"Entry::new">>)
    ELSE IF f.at = "join" THEN Out(s, Internal, <<"Entry::new", "set_password">>)
    ELSE IF f.at = "call"
         THEN Out(s, windows_map_keyring_error(f, key), <<"Entry::new", "set_password">>)
    ELSE Out([s EXCEPT !.platform = MapInsert(s.platform, key, value),
                       !.keys = s.keys \cup {key}], Ok, <<"Entry::new", "set_password">>)

WindowsGet(s, key, f) ==
    IF key = EmptyKey THEN Out(s, InvalidInput, <<>>)
    ELSE IF f.at = "entry" THEN Out(s, Panic, <<"Entry::new">>)
    ELSE IF f.at = "join" THEN Out(s, Internal, <<"Entry::new", "get_password">>)
    ELSE IF f.at = "call"
         THEN Out(s, windows_map_keyring_error(f, key), <<"Entry::new", "get_password">>)
    ELSE IF key \notin DOMAIN s.platform
         THEN Out(s, windows_map_keyring_error(NoEntry, key), <<"Entry::new", "get_password">>)
    ELSE Out(s, OkValue(s.platform[key]), <<"Entry::new", "get_password">>)

WindowsDelete(s, key, f) ==
    IF key = EmptyKey THEN Out(s, InvalidInput, <<>>)
    ELSE IF f.at = "entry" THEN Out(s, Panic, <<"Entry::new">>)
    ELSE IF f.at = "join" THEN Out(s, Internal, <<"Entry::new", "delete_password">>)
    ELSE IF f.at = "call"
         THEN Out(s, windows_map_keyring_error(f, key), <<"Entry::new", "delete_password">>)
    ELSE Out([s EXCEPT !.platform = MapRemove(s.platform, key),
                       !.keys = s.keys \ {key}], Ok, <<"Entry::new", "delete_password">>)

RECURSIVE WindowsClearLoop(_, _, _, _, _)
WindowsClearLoop(s, order, fs, errors, calls) ==
    IF order = <<>> THEN Out(s, IF errors = <<>> THEN Ok ELSE InternalFailed(errors), calls)
    ELSE LET o == WindowsDelete(s, Head(order), fs[Head(order)])
         IN  IF o.result = Panic THEN Out(o.s, Panic, calls \o o.calls)
             ELSE WindowsClearLoop(o.s, Tail(order), fs,
                                   IF o.result.kind # "Ok"
                                   THEN Append(errors, Head(order)) ELSE errors,
                                   calls \o o.calls)

WindowsClear(s, order, fs) == WindowsClearLoop(s, order, fs, <<>>, <<>>)

(***************************************************************************)
(* LinuxStorage (linux.rs).                                                *)
(***************************************************************************)
linux_map_keyring_error(e, key) ==
    CASE e.err = "NoEntry" -> KeyNotFound(key)
      [] e.err = "PlatformFailure" ->
            IF Contains(e.msg, "access") \/ Contains(e.msg, "denied")
               \/ Contains(e.msg, "cancelled")
            THEN AccessDenied(key)
            ELSE IF Contains(e.msg, "Secret Service") \/ Contains(e.msg, "dbus")
            THEN BackendNotAvailable
            ELSE Internal
      [] e.err = "Ambiguous" -> Internal
      [] OTHER -> Internal

(* Mutant: a successful set does not call track_key.                       *)
LinuxSetUntracked(s, key, value, f) ==
    IF key = EmptyKey THEN Out(s, InvalidInput, <<>>)
    ELSE IF f.at = "entry" THEN Out(s, BackendNotAvailable, <<"Entry::new">>)
    ELSE IF f.at = "join" THEN Out(s, Internal, <<"Entry::new", "set_password">>)
    ELSE IF f.at = "call"
         THEN Out(s, linux_map_keyring_error(f, key), <<"Entry::new", "set_password">>)
    ELSE Out([s EXCEPT !.platform = MapInsert(s.platform, key, value)], Ok,
             <<"Entry::new", "set_password">>)

LinuxSet(s, key, value, f) ==
    IF key = EmptyKey THEN Out(s, InvalidInput, <<>>)
    ELSE IF f.at = "entry" THEN Out(s, BackendNotAvailable, <<"Entry::new">>)
    ELSE IF f.at = "join" THEN Out(s, Internal, <<"Entry::new", "set_password">>)
    ELSE IF f.at = "call"
         THEN Out(s, linux_map_keyring_error(f, key), <<"Entry::new", "set_password">>)
    ELSE Out([s EXCEPT !.platform = MapInsert(s.platform, key, value),
                       !.keys = s.keys \cup {key}], Ok, <<"Entry::new", "set_password">>)

LinuxGet(s, key, f) ==
    IF key = EmptyKey THEN Out(s, InvalidInput, <<>>)
    ELSE IF f.at = "entry" THEN Out(s, BackendNotAvailable, <<"Entry::new">>)
    ELSE IF f.at = "join" THEN Out(s, Internal, <<"Entry::new", "get_password">>)
    ELSE IF f.at = "call"
         THEN Out(s, linux_map_keyring_error(f, key), <<"Entry::new", "get_password">>)
    ELSE IF key \notin DOMAIN s.platform
         THEN Out(s, linux_map_keyring_error(NoEntry, key), <<"Entry::new", "get_password">>)
    ELSE Out(s, OkValue(s.platform[key]), <<"Entry::new", "get_password">>)

(* Mutant: the entry is created before the key is validated.               *)
LinuxDeleteEntryFirst(s, key, f) ==
    IF f.at = "entry" THEN Out(s, BackendNotAvailable, <<"Entry::new">>)
    ELSE IF key = EmptyKey THEN Out(s, InvalidInput, <<"Entry::new">>)
    ELSE IF f.at = "join" THEN Out(s, Internal, <<"Entry::new", "delete_password">>)
    ELSE IF f.at = "call"
         THEN Out(s, linux_map_keyring_error(f, key), <<"Entry::new", "delete_password">>)
    ELSE Out([s EXCEPT !.platform = MapRemove(s.platform, key),
                       !.keys = s.keys \ {key}], Ok, <<"Entry::new", "delete_password">>)

LinuxDelete(s, key, f) ==
    IF key = EmptyKey THEN Out(s, InvalidInput, <<>>)
    ELSE IF f.at = "entry" THEN Out(s, BackendNotAvailable, <<"Entry::new">>)
    ELSE IF f.at = "join" THEN Out(s, Internal, <<"Entry::new", "delete_password">>)
    ELSE IF f.at = "call"
         THEN Out(s, linux_map_keyring_error(f, key), <<"Entry::new", "delete_password">>)
    ELSE Out([s EXCEPT !.platform = MapRemove(s.platform, key),
                       !.keys = s.keys \ {key}], Ok, <<"Entry::new", "delete_password">>)

(* Mutant: the loop returns at the first delete that fails.                *)
RECURSIVE LinuxClearStopsAtFailure(_, _, _, _, _)
LinuxClearStopsAtFailure(s, order, fs, errors, calls) ==
    IF order = <<>> THEN Out(s, Ok, calls)
    ELSE LET o == LinuxDelete(s, Head(order), fs[Head(order)])
         IN  IF o.result.kind # "Ok"
             THEN Out(o.s, InternalFailed(<<Head(order)>>), calls \o o.calls)
             ELSE LinuxClearStopsAtFailure(o.s, Tail(order), fs, errors, calls \o o.calls)

RECURSIVE LinuxClearLoop(_, _, _, _, _)
LinuxClearLoop(s, order, fs, errors, calls) ==
    IF order = <<>> THEN Out(s, IF errors = <<>> THEN Ok ELSE InternalFailed(errors), calls)
    ELSE LET o == LinuxDelete(s, Head(order), fs[Head(order)])
         IN  LinuxClearLoop(o.s, Tail(order), fs,
                            IF o.result.kind # "Ok"
                            THEN Append(errors, Head(order)) ELSE errors,
                            calls \o o.calls)

LinuxClear(s, order, fs) == LinuxClearLoop(s, order, fs, <<>>, <<>>)


(***************************************************************************)
(* The SecureStorage trait object (mod.rs): dynamic dispatch to the        *)
(* adapter the instance is.                                                *)
(***************************************************************************)
StorageSet(s, key, value, f) ==
    CASE s.backend = "memory" -> MemSet(s, key, value)
      [] s.backend = "keychain" -> KeychainSet(s, key, value, f)
      [] s.backend = "windows" -> WindowsSet(s, key, value, f)
      [] s.backend = "linux" -> LinuxSet(s, key, value, f)

StorageGet(s, key, f) ==
    CASE s.backend = "memory" -> MemGet(s, key)
      [] s.backend = "keychain" -> KeychainGet(s, key, f)
      [] s.backend = "windows" -> WindowsGet(s, key, f)
      [] s.backend = "linux" -> LinuxGet(s, key, f)

StorageDelete(s, key, f) ==
    CASE s.backend = "memory" -> MemDelete(s, key)
      [] s.backend = "keychain" -> KeychainDelete(s, key, f)
      [] s.backend = "windows" -> WindowsDelete(s, key, f)
      [] s.backend = "linux" -> LinuxDelete(s, key, f)

StorageClear(s, order, fs) ==
    CASE s.backend = "memory" -> MemClear(s)
      [] s.backend = "keychain" -> KeychainClear(s)
      [] s.backend = "windows" -> WindowsClear(s, order, fs)
      [] s.backend = "linux" -> LinuxClear(s, order, fs)

(* Mutant: the Linux adapter reports the status of its in-memory fallback. *)
is_persistent_linux_as_fallback(s) ==
    IF s.backend \in {"memory", "linux"} THEN "NonPersistent" ELSE "Persistent"

is_persistent(s) == IF s.backend = "memory" THEN "NonPersistent" ELSE "Persistent"

(***************************************************************************)
(* The state machine of one storage instance driven by one caller.         *)
(***************************************************************************)
S == [backend |-> backend, data |-> data, platform |-> platform, keys |-> keys]

Install(s) ==
    /\ backend' = s.backend
    /\ data' = s.data
    /\ platform' = s.platform
    /\ keys' = s.keys

PreExisting == "stale_value"

(* What the store held under key when the operation began (None: nothing). *)
Stored(s) == IF s.backend = "memory" THEN s.data ELSE s.platform
Prior(s, key) == IF key \in DOMAIN Stored(s) THEN Stored(s)[key] ELSE None

(* The platform outcomes the operations are driven with: every failing     *)
(* outcome leaves the platform store as it was, so one representative per  *)
(* step that can fail reaches every storage state; the mapping of each     *)
(* outcome of FaultsOf to a result is checked on the operators directly.   *)
StepFaults(b) ==
    CASE b = "memory" -> {NoFault}
      [] b = "keychain" -> {NoFault, Fault("join", "", {}, 0), Fault("utf8", "", {}, 0),
                            Fault("call", "", {}, errSecAuthFailed)}
      [] OTHER -> {NoFault, Fault("entry", "", {}, 0),
                   Fault("call", "PlatformFailure", {"denied"}, 0),
                   Fault("call", "PlatformFailure", {"dbus"}, 0)}

(* The orders in which a HashSet of tracked keys can be iterated.          *)

Orders(ks) ==
    {q \in UNION {[1..n -> ks] : n \in {Cardinality(ks)}} :
        \A i, j \in DOMAIN q : i # j => q[i] # q[j]}

InitStore ==
    /\ backend \in Backends
    /\ host = HostOf(backend)
    /\ data = EmptyMap
    /\ platform \in IF backend = "memory" THEN {EmptyMap}
                    ELSE PartialMaps(UserKeys, {PreExisting})
    /\ keys = {}
    /\ user_id = None
    /\ device_id = None
    /\ expect = EmptyMap
    /\ written = {}
    /\ last = [op |-> "new"]
    /\ procs = <<>>

Set(key, value, f) ==
    \E o \in {StorageSet(S, key, value, f)} :
        /\ Install(o.s)
        /\ expect' = IF o.result = Ok THEN MapInsert(expect, key, value) ELSE expect
        /\ written' = IF o.result = Ok THEN written \cup {key} ELSE written
        /\ last' = [op |-> "set", key |-> key, value |-> value, prior |-> Prior(S, key),
                    result |-> o.result, calls |-> o.calls]
        /\ UNCHANGED <<procs, host, user_id, device_id>>

Get(key, f) ==
    \E o \in {StorageGet(S, key, f)} :
        /\ Install(o.s)
        /\ last' = [op |-> "get", key |-> key, prior |-> Prior(S, key),
                    result |-> o.result, calls |-> o.calls]
        /\ UNCHANGED <<procs, host, user_id, device_id, expect, written>>

Delete(key, f) ==
    \E o \in {StorageDelete(S, key, f)} :
        /\ Install(o.s)
        /\ expect' = IF o.result = Ok THEN MapRemove(expect, key) ELSE expect
        /\ last' = [op |-> "delete", key |-> key, prior |-> Prior(S, key),
                    result |-> o.result, calls |-> o.calls]
        /\ UNCHANGED <<procs, host, user_id, device_id, written>>

(* The keys a clear removed before it ended: those of order whose delete   *)
(* the platform carried out, up to a delete that unwinds.                  *)
RECURSIVE Deleted(_, _, _, _)
Deleted(b, order, fs, acc) ==
    IF order = <<>> \/ Unwinds(b, fs[Head(order)]) THEN acc
    ELSE Deleted(b, Tail(order), fs,
                 IF fs[Head(order)] = NoFault THEN acc \cup {Head(order)} ELSE acc)

Clear(order, fs) ==
    \E o \in {StorageClear(S, order, fs)} :
        /\ Install(o.s)
        /\ expect' = IF o.result = Ok THEN EmptyMap
                      ELSE [k \in DOMAIN expect \ Deleted(backend, order, fs, {}) |-> expect[k]]
        /\ last' = [op |-> "clear", result |-> o.result, calls |-> o.calls]
        /\ UNCHANGED <<procs, host, user_id, device_id, written>>

IsPersistent ==
    /\ last' = [op |-> "is_persistent", result |-> is_persistent(S)]
    /\ UNCHANGED <<procs, host, backend, data, platform, keys, user_id, device_id, expect, written>>

NextStore ==
    \/ \E key \in Keys, value \in Values, f \in StepFaults(backend) : Set(key, value, f)
    \/ \E key \in Keys, f \in StepFaults(backend) : Get(key, f)
    \/ \E key \in Keys, f \in StepFaults(backend) : Delete(key, f)
    \/ \E order \in Orders(keys), fs \in [keys -> StepFaults(backend)] : Clear(order, fs)
    \/ IsPersistent

SpecStore == InitStore /\ [][NextStore]_vars


(***************************************************************************)
(* AuthKeys (keys.rs) and the session manager MatrixClient                 *)
(* (core/matrix_client/structs.rs).  A client is [user_id, device_id],     *)
(* each None or Some(value).  The matrix-sdk Client is the protocol        *)
(* collaborator: its answer to a call is an input of the operation.        *)
(***************************************************************************)
ACCESS_TOKEN == "skiffy__access_token"
REFRESH_TOKEN == "skiffy__refresh_token"
USER_ID == "skiffy__user_id"
DEVICE_ID == "skiffy__device_id"

AuthKeysAll == <<ACCESS_TOKEN, REFRESH_TOKEN, USER_ID, DEVICE_ID>>
AuthKeys == {AuthKeysAll[i] : i \in DOMAIN AuthKeysAll}

LoginResponse(a, r, u, d) ==
    [ok |-> TRUE, access_token |-> a, refresh_token |-> r, user_id |-> u, device_id |-> d]
(* The answers of a successful protocol login the model is driven with:    *)
(* one without and one with a refresh token, differing in every field.     *)
LoginResponses ==
    {LoginResponse("abc123", None, "@test:matrix.org", "GHTYAJCE"),
     LoginResponse("syt_token2", "refresh2", "@u:host", "DEV1")}
LoginFailures == {[ok |-> FALSE, why |-> "network"], [ok |-> FALSE, why |-> "M_FORBIDDEN"]}

(* anyhow::Error with the context the `?` attached and the error beneath.  *)
Err(context, source) == [kind |-> "Err", context |-> context, source |-> source]

ClientOut(c, s, r, w) == [c |-> c, s |-> s, result |-> r, writes |-> w]

(* One storage write of login followed by `?`: continue with `next` when   *)
(* it returned Ok, else leave with the error (a panic unwinds instead).    *)
Attempt(c, o, context, w) ==
    ClientOut(c, o.s, IF o.result = Panic THEN Panic ELSE Err(context, o.result), w)

(* Mutant: the device id is not persisted.                                 *)
loginSkipsDeviceId(c, s, proto, fs) ==
    IF ~proto.ok THEN ClientOut(c, s, Err("authenticate", proto.why), <<>>)
    ELSE
    LET c1 == [user_id |-> proto.user_id, device_id |-> proto.device_id]
        w1 == StorageSet(s, ACCESS_TOKEN, proto.access_token, fs[ACCESS_TOKEN])
        w2 == IF proto.refresh_token # None
              THEN StorageSet(w1.s, REFRESH_TOKEN, proto.refresh_token, fs[REFRESH_TOKEN])
              ELSE Out(w1.s, Ok, <<>>)
        w3 == StorageSet(w2.s, USER_ID, proto.user_id, fs[USER_ID])
        k2 == IF proto.refresh_token # None THEN <<REFRESH_TOKEN>> ELSE <<>>
    IN  IF w1.result # Ok THEN Attempt(c1, w1, "access token", <<ACCESS_TOKEN>>)
        ELSE IF w2.result # Ok THEN Attempt(c1, w2, "refresh token", <<ACCESS_TOKEN>> \o k2)
        ELSE IF w3.result # Ok
             THEN Attempt(c1, w3, "user ID", <<ACCESS_TOKEN>> \o k2 \o <<USER_ID>>)
        ELSE ClientOut(c1, w3.s, Ok, <<ACCESS_TOKEN>> \o k2 \o <<USER_ID>>)

(* Mutant: the access-token slot is reserved in storage before the         *)
(* protocol call is made.                                                  *)
loginWritesBeforeProtocol(c, s, proto, fs) ==
    LET w0 == StorageSet(s, ACCESS_TOKEN, "", fs[ACCESS_TOKEN])
    IN  IF ~proto.ok THEN ClientOut(c, w0.s, Err("authenticate", proto.why), <<ACCESS_TOKEN>>)
        ELSE ClientOut([user_id |-> proto.user_id, device_id |-> proto.device_id],
                       w0.s, Ok, <<ACCESS_TOKEN>>)

(* Mutant: the refresh token is written after the device id.               *)
loginRefreshLast(c, s, proto, fs) ==
    IF ~proto.ok THEN ClientOut(c, s, Err("authenticate", proto.why), <<>>)
    ELSE
    LET c1 == [user_id |-> proto.user_id, device_id |-> proto.device_id]
        w1 == StorageSet(s, ACCESS_TOKEN, proto.access_token, fs[ACCESS_TOKEN])
        w2 == StorageSet(w1.s, USER_ID, proto.user_id, fs[USER_ID])
        w3 == StorageSet(w2.s, DEVICE_ID, proto.device_id, fs[DEVICE_ID])
        w4 == IF proto.refresh_token # None
              THEN StorageSet(w3.s, REFRESH_TOKEN, proto.refresh_token, fs[REFRESH_TOKEN])
              ELSE Out(w3.s, Ok, <<>>)
        k4 == IF proto.refresh_token # None THEN <<REFRESH_TOKEN>> ELSE <<>>
    IN  IF w1.result # Ok THEN Attempt(c1, w1, "access token", <<ACCESS_TOKEN>>)
        ELSE IF w2.result # Ok THEN Attempt(c1, w2, "user ID", <<ACCESS_TOKEN, USER_ID>>)
        ELSE IF w3.result # Ok
             THEN Attempt(c1, w3, "device ID", <<ACCESS_TOKEN, USER_ID, DEVICE_ID>>)
        ELSE IF w4.result # Ok
             THEN Attempt(c1, w4, "refresh token", <<ACCESS_TOKEN, USER_ID, DEVICE_ID>> \o k4)
        ELSE ClientOut(c1, w4.s, Ok, <<ACCESS_TOKEN, USER_ID, DEVICE_ID>> \o k4)

login(c, s, proto, fs) ==
    IF ~proto.ok THEN ClientOut(c, s, Err("authenticate", proto.why), <<>>)
    ELSE
    LET c1 == [user_id |-> proto.user_id, device_id |-> proto.device_id]
        w1 == StorageSet(s, ACCESS_TOKEN, proto.access_token, fs[ACCESS_TOKEN])
        w2 == IF proto.refresh_token # None
              THEN StorageSet(w1.s, REFRESH_TOKEN, proto.refresh_token, fs[REFRESH_TOKEN])
              ELSE Out(w1.s, Ok, <<>>)
        w3 == StorageSet(w2.s, USER_ID, proto.user_id, fs[USER_ID])
        w4 == StorageSet(w3.s, DEVICE_ID, proto.device_id, fs[DEVICE_ID])
        k2 == IF proto.refresh_token # None THEN <<REFRESH_TOKEN>> ELSE <<>>
    IN  IF w1.result # Ok THEN Attempt(c1, w1, "access token", <<ACCESS_TOKEN>>)
        ELSE IF w2.result # Ok THEN Attempt(c1, w2, "refresh token", <<ACCESS_TOKEN>> \o k2)
        ELSE IF w3.result # Ok
             THEN Attempt(c1, w3, "user ID", <<ACCESS_TOKEN>> \o k2 \o <<USER_ID>>)
        ELSE IF w4.result # Ok
             THEN Attempt(c1, w4, "device ID", <<ACCESS_TOKEN>> \o k2 \o <<USER_ID, DEVICE_ID>>)
        ELSE ClientOut(c1, w4.s, Ok, <<ACCESS_TOKEN>> \o k2 \o <<USER_ID, DEVICE_ID>>)

(* OwnedUserId::from_str accepts "@localpart:server" and returns the id    *)
(* that prints as the string it was given; every other string is refused.  *)
(* OwnedDeviceId::try_from(String) accepts every string.                   *)
WellFormedUserIds == {"@test:matrix.org", "@u:host", "@old:host"}
ParseUserId(str) ==
    IF str \in WellFormedUserIds THEN OkValue(str) ELSE Err("Invalid user ID format", "parse")
ParseDeviceId(str) == OkValue(str)

RestoreOut(c, s, r, reads) == [c |-> c, s |-> s, result |-> r, reads |-> reads]

(* Mutant: a session without a readable refresh token is refused.          *)
restoreRequiresRefresh(c, s, fs, proto_ok, uid, did, reads) ==
    LET r4 == StorageGet(s, REFRESH_TOKEN, fs[REFRESH_TOKEN])
        rd == Append(reads, REFRESH_TOKEN)
    IN  IF r4.result.kind # "Ok" THEN RestoreOut(c, r4.s, Err("refresh token", r4.result), rd)
        ELSE IF ~proto_ok THEN RestoreOut(c, r4.s, Err("restore Matrix session", "protocol"), rd)
        ELSE RestoreOut([user_id |-> uid, device_id |-> did], r4.s, OkValue(TRUE), rd)

(* Mutant: the ids are assigned before the protocol client answers.        *)
restoreAssignsIdsFirst(c, s, fs, proto_ok, uid, did, reads) ==
    LET r4 == StorageGet(s, REFRESH_TOKEN, fs[REFRESH_TOKEN])
        rd == Append(reads, REFRESH_TOKEN)
        c1 == [user_id |-> uid, device_id |-> did]
    IN  IF r4.result = Panic THEN RestoreOut(c, r4.s, Panic, rd)
        ELSE IF ~proto_ok THEN RestoreOut(c1, r4.s, Err("restore Matrix session", "protocol"), rd)
        ELSE RestoreOut(c1, r4.s, OkValue(TRUE), rd)

(* restore_session, lines 95-117: the refresh token is read with .ok(),    *)
(* the protocol client restores the session, then the ids are assigned.    *)
restore_protocol(c, s, fs, proto_ok, uid, did, reads) ==
    LET r4 == StorageGet(s, REFRESH_TOKEN, fs[REFRESH_TOKEN])
        rd == Append(reads, REFRESH_TOKEN)
    IN  IF r4.result = Panic THEN RestoreOut(c, r4.s, Panic, rd)
        ELSE IF ~proto_ok THEN RestoreOut(c, r4.s, Err("restore Matrix session", "protocol"), rd)
        ELSE RestoreOut([user_id |-> uid, device_id |-> did], r4.s, OkValue(TRUE), rd)

(* Mutant: the stored ids are used as they are, without parsing them.      *)
restoreIdsUnparsed(c, s, fs, proto_ok) ==
    LET r2 == StorageGet(s, USER_ID, fs[USER_ID])
        r3 == StorageGet(r2.s, DEVICE_ID, fs[DEVICE_ID])
        rd2 == <<ACCESS_TOKEN, USER_ID>>
        rd3 == <<ACCESS_TOKEN, USER_ID, DEVICE_ID>>
    IN  IF r2.result.kind # "Ok" THEN RestoreOut(c, r2.s, Err("user ID", r2.result), rd2)
        ELSE IF r3.result.kind # "Ok" THEN RestoreOut(c, r3.s, Err("device ID", r3.result), rd3)
        ELSE restore_protocol(c, r3.s, fs, proto_ok, r2.result.value, r3.result.value, rd3)

(* restore_session, lines 80-93: both id records are required and the      *)
(* stored ids are parsed.                                                  *)
restore_ids(c, s, fs, proto_ok) ==
    LET r2 == StorageGet(s, USER_ID, fs[USER_ID])
        r3 == StorageGet(r2.s, DEVICE_ID, fs[DEVICE_ID])
        rd2 == <<ACCESS_TOKEN, USER_ID>>
        rd3 == <<ACCESS_TOKEN, USER_ID, DEVICE_ID>>
    IN  IF r2.result = Panic THEN RestoreOut(c, r2.s, Panic, rd2)
        ELSE IF r2.result.kind # "Ok" THEN RestoreOut(c, r2.s, Err("user ID", r2.result), rd2)
        ELSE IF r3.result = Panic THEN RestoreOut(c, r3.s, Panic, rd3)
        ELSE IF r3.result.kind # "Ok" THEN RestoreOut(c, r3.s, Err("device ID", r3.result), rd3)
        ELSE LET u == ParseUserId(r2.result.value)
                 d == ParseDeviceId(r3.result.value)
             IN  IF u.kind # "Ok" THEN RestoreOut(c, r3.s, u, rd3)
                 ELSE IF d.kind # "Ok" THEN RestoreOut(c, r3.s, d, rd3)
                 ELSE restore_protocol(c, r3.s, fs, proto_ok, u.value, d.value, rd3)

(* Mutant: a failed access-token read is reported as an error.             *)
restoreAbsentIsError(c, s, fs, proto_ok) ==
    LET r1 == StorageGet(s, ACCESS_TOKEN, fs[ACCESS_TOKEN])
    IN  IF r1.result.kind # "Ok"
        THEN RestoreOut(c, r1.s, Err("access token", r1.result), <<ACCESS_TOKEN>>)
        ELSE restore_ids(c, r1.s, fs, proto_ok)

(* restore_session, lines 73-78: whatever error the access-token read      *)
(* returned, the answer is Ok(false).                                      *)
restore_session(c, s, fs, proto_ok) ==
    LET r1 == StorageGet(s, ACCESS_TOKEN, fs[ACCESS_TOKEN])
    IN  IF r1.result = Panic THEN RestoreOut(c, r1.s, Panic, <<ACCESS_TOKEN>>)
        ELSE IF r1.result.kind # "Ok" THEN RestoreOut(c, r1.s, OkValue(FALSE), <<ACCESS_TOKEN>>)
        ELSE restore_ids(c, r1.s, fs, proto_ok)

(* Mutant (logoutDeletesStopAtFailure): the loop ends at the first delete  *)
(* that returns an error.                                                  *)
(* The delete loop of logout: every key of AuthKeys::all() in order; an    *)
(* error a delete returns is logged and the loop goes on (a panic unwinds).*)
RECURSIVE logoutDeletesStopAtFailure(_, _, _, _, _)
logoutDeletesStopAtFailure(s, order, fs, done, failed) ==
    IF order = <<>> THEN [s |-> s, result |-> Ok, deletes |-> done, failed |-> failed]
    ELSE LET o == StorageDelete(s, Head(order), fs[Head(order)])
             d == Append(done, Head(order))
         IN  IF o.result = Panic
             THEN [s |-> o.s, result |-> Panic, deletes |-> d, failed |-> failed \cup {Head(order)}]
             ELSE IF o.result # Ok
             THEN [s |-> o.s, result |-> Ok, deletes |-> d, failed |-> failed \cup {Head(order)}]
             ELSE logoutDeletesStopAtFailure(o.s, Tail(order), fs, d, failed)

RECURSIVE logout_deletes(_, _, _, _, _)
logout_deletes(s, order, fs, done, failed) ==
    IF order = <<>> THEN [s |-> s, result |-> Ok, deletes |-> done, failed |-> failed]
    ELSE LET o == StorageDelete(s, Head(order), fs[Head(order)])
             d == Append(done, Head(order))
         IN  IF o.result = Panic
             THEN [s |-> o.s, result |-> Panic, deletes |-> d, failed |-> failed \cup {Head(order)}]
             ELSE logout_deletes(o.s, Tail(order), fs, d,
                                 IF o.result = Ok THEN failed ELSE failed \cup {Head(order)})

LogoutOut(c, d, remote, remote_failed) ==
    [c |-> c, s |-> d.s, result |-> d.result, remote |-> remote,
     remote_failed |-> remote_failed, deletes |-> d.deletes, failed |-> d.failed]

(* Mutant: a failed remote logout aborts the logout with an error.         *)
logoutPropagatesRemoteError(c, s, remote_ok, fs) ==
    IF c.user_id # None /\ ~remote_ok
    THEN LogoutOut(c, [s |-> s, result |-> Err("logout", "remote"), deletes |-> <<>>,
                       failed |-> {}], TRUE, TRUE)
    ELSE LogoutOut([user_id |-> None, device_id |-> None],
                   logout_deletes(s, AuthKeysAll, fs, <<>>, {}), c.user_id # None, FALSE)

(* Mutant: the refresh-token record is left in place.                      *)
logoutKeepsRefreshToken(c, s, remote_ok, fs) ==
    LogoutOut([user_id |-> None, device_id |-> None],
              logout_deletes(s, <<ACCESS_TOKEN, USER_ID, DEVICE_ID>>, fs, <<>>, {}),
              c.user_id # None, c.user_id # None /\ ~remote_ok)

(* remote_ok: what matrix_auth().logout() answers if it is called; it is   *)
(* called only when logged in and its error is only logged.                *)
logout(c, s, remote_ok, fs) ==
    LET remote == c.user_id # None
        remote_failed == remote /\ ~remote_ok
        c1 == [user_id |-> None, device_id |-> None]
    IN  LogoutOut(c1, logout_deletes(s, AuthKeysAll, fs, <<>>, {}), remote, remote_failed)

is_logged_in(c) == c.user_id # None

(* Mutant: sync asks the server whether or not a user is logged in.        *)
syncWithoutCheck(c, net_ok) ==
    [result |-> IF net_ok THEN Ok ELSE Err("sync", "network"), calls |-> <<"sync_once">>]

(* net_ok: what client.sync_once(..) answers if it is called.               *)
sync(c, net_ok) ==
    IF c.user_id # None
    THEN [result |-> IF net_ok THEN Ok ELSE Err("sync", "network"), calls |-> <<"sync_once">>]
    ELSE [result |-> Err("Sync requires authentication - please login first", None),
          calls |-> <<>>]

(* Mutant: every failed read of the access-token key answers false.        *)
hasStoredSessionSwallows(s, f) ==
    IF StorageGet(s, ACCESS_TOKEN, f).result.kind = "Ok" THEN OkValue(TRUE) ELSE OkValue(FALSE)

(* has_stored_session (api/auth.rs), on the storage handle it obtained.    *)
has_stored_session(s, f) ==
    LET o == StorageGet(s, ACCESS_TOKEN, f)
    IN  CASE o.result.kind = "Ok" -> OkValue(TRUE)
          [] o.result.kind = "KeyNotFound" -> OkValue(FALSE)
          [] o.result = Panic -> Panic
          [] OTHER -> Err("Storage", o.result)

(***************************************************************************)
(* The state machine of one session manager on one storage handle.         *)
(***************************************************************************)
C == [user_id |-> user_id, device_id |-> device_id]

(* What a persistent store may hold when the process starts: nothing, or   *)
(* the records an earlier run left behind.                                 *)
EarlierSession ==
    [k \in AuthKeys |->
        CASE k = ACCESS_TOKEN -> "old_token"
          [] k = REFRESH_TOKEN -> "old_refresh"
          [] k = USER_ID -> "@old:host"
          [] k = DEVICE_ID -> "OLDDEVICE"]

(* The records of an earlier run with a user id that does not parse.       *)
MalformedSession == [EarlierSession EXCEPT ![USER_ID] = "invalid_user_id_format"]

(* The keys login writes for a protocol answer, in the order of its        *)
(* storage.set calls, and the value it writes under each.                  *)
LoginOrder(p) ==
    <<ACCESS_TOKEN>> \o (IF p.refresh_token # None THEN <<REFRESH_TOKEN>> ELSE <<>>)
        \o <<USER_ID, DEVICE_ID>>
LoginValue(p, k) ==
    CASE k = ACCESS_TOKEN -> p.access_token
      [] k = REFRESH_TOKEN -> p.refresh_token
      [] k = USER_ID -> p.user_id
      [] k = DEVICE_ID -> p.device_id

(* The session manager only tells Ok from an error (and a panic unwinds    *)
(* through it), so each storage call is driven with: success, one failing  *)
(* platform outcome, and on Windows the Entry::new failure that panics.    *)
(* login stops at the first write that fails, so its runs are those with   *)
(* no failing write and those with one; logout attempts every delete.      *)
AllOk == [k \in AuthKeys |-> NoFault]
ClientFaults(b) ==
    CASE b = "memory" -> {NoFault}
      [] b = "keychain" -> {NoFault, Fault("call", "", {}, errSecAuthFailed)}
      [] b = "linux" -> {NoFault, Fault("call", "PlatformFailure", {"denied"}, 0)}
      [] b = "windows" -> {NoFault, Fault("call", "PlatformFailure", {"denied"}, 0),
                           Fault("entry", "", {}, 0)}
OneFault(b) == {AllOk} \cup {[AllOk EXCEPT ![k] = f] : k \in AuthKeys, f \in ClientFaults(b)}
(* The deletes after one that panics are never made: their outcomes are no *)
(* input of the run.                                                       *)
LogoutFaults(b) ==
    {fs \in [AuthKeys -> ClientFaults(b)] :
        \A i, j \in DOMAIN AuthKeysAll :
            (i < j /\ fs[AuthKeysAll[i]].at = "entry") => fs[AuthKeysAll[j]] = NoFault}
(* The remote logout call is made, and has an outcome, only when logged in. *)
RemoteOutcomes(c) == IF c.user_id # None THEN BOOLEAN ELSE {TRUE}

InitClient ==
    /\ backend \in Backends
    /\ host = HostOf(backend)
    /\ data = EmptyMap
    /\ platform \in IF backend = "memory" THEN {EmptyMap} ELSE {EmptyMap, EarlierSession}
    /\ keys = {}
    /\ user_id = None
    /\ device_id = None
    /\ expect = EmptyMap
    /\ written = {}
    /\ last = [op |-> "new"]
    /\ procs = <<>>

NewClient ==
    /\ user_id' = None
    /\ device_id' = None
    /\ last' = [op |-> "new"]
    /\ UNCHANGED <<procs, host, backend, data, platform, keys, expect, written>>

Login(proto, fs) ==
    \E o \in {login(C, S, proto, fs)} :
        /\ Install(o.s)
        /\ user_id' = o.c.user_id
        /\ device_id' = o.c.device_id
        /\ last' = [op |-> "login", proto |-> proto, result |-> o.result, writes |-> o.writes,
                    pre_stored |-> AuthKeys \cap DOMAIN Stored(S) # {},
                    pre_logged_in |-> is_logged_in(C)]
        /\ UNCHANGED <<procs, host, expect, written>>

Logout(remote_ok, fs) ==
    \E o \in {logout(C, S, remote_ok, fs)} :
        /\ Install(o.s)
        /\ user_id' = o.c.user_id
        /\ device_id' = o.c.device_id
        /\ last' = [op |-> "logout", result |-> o.result, remote |-> o.remote,
                    remote_ok |-> o.remote /\ remote_ok, deletes |-> o.deletes,
                    failed |-> o.failed, pre_keys |-> AuthKeys \cap DOMAIN Stored(S),
                    pre_logged_in |-> is_logged_in(C), after_logout |-> last.op = "logout",
                    store_changed |-> Stored(o.s) # Stored(S)]
        /\ UNCHANGED <<procs, host, expect, written>>

Sync(net_ok) ==
    \E o \in {sync(C, net_ok)} :
        /\ last' = [op |-> "sync", result |-> o.result, calls |-> o.calls,
                    pre_logged_in |-> is_logged_in(C)]
        /\ UNCHANGED <<procs, host, backend, data, platform, keys, user_id, device_id,
                       expect, written>>

(* A caller writes one credential record through the storage handle        *)
(* before the session manager is used on it.                               *)
StoredValues(key) ==
    IF key = USER_ID THEN {EarlierSession[key], "invalid_user_id_format"}
    ELSE {EarlierSession[key]}

StoreRecord(key, value) ==
    \E o \in {StorageSet(S, key, value, NoFault)} :
        /\ ~is_logged_in(C)
        /\ last.op \in {"new", "store"}
        /\ Install(o.s)
        /\ last' = [op |-> "store", key |-> key, result |-> o.result]
        /\ UNCHANGED <<procs, host, user_id, device_id, expect, written>>

RestoreSession(proto_ok, fs) ==
    \E o \in {restore_session(C, S, fs, proto_ok)} :
        /\ Install(o.s)
        /\ user_id' = o.c.user_id
        /\ device_id' = o.c.device_id
        /\ last' = [op |-> "restore", result |-> o.result, reads |-> o.reads,
                    proto_ok |-> proto_ok, pre |-> C,
                    token_read |-> StorageGet(S, ACCESS_TOKEN, fs[ACCESS_TOKEN]).result,
                    refresh_read |-> StorageGet(S, REFRESH_TOKEN, fs[REFRESH_TOKEN]).result]
        /\ UNCHANGED <<procs, host, expect, written>>

NextClient ==
    \/ NewClient
    \/ \E proto \in LoginResponses \cup LoginFailures, fs \in OneFault(backend) : Login(proto, fs)
    \/ \E remote_ok \in RemoteOutcomes(C), fs \in LogoutFaults(backend) : Logout(remote_ok, fs)
    \/ \E net_ok \in RemoteOutcomes(C) : Sync(net_ok)

SpecClient == InitClient /\ [][NextClient]_vars

(***************************************************************************)
(* Session restoration: a caller may have written credential records       *)
(* through the handle, an earlier client may have logged in on it, and a   *)
(* new client restores from it; the probe has_stored_session reads it.     *)
(***************************************************************************)
HasStoredSession(f) ==
    /\ last' = [op |-> "has_stored_session", result |-> has_stored_session(S, f),
                read |-> StorageGet(S, ACCESS_TOKEN, f).result]
    /\ UNCHANGED <<procs, host, backend, data, platform, keys, user_id, device_id, expect, written>>

NextRestore ==
    \/ NewClient
    \/ \E key \in AuthKeys : \E value \in StoredValues(key) : StoreRecord(key, value)
    \/ \E proto \in LoginResponses \cup LoginFailures : Login(proto, AllOk)
    \/ \E proto_ok \in BOOLEAN, fs \in OneFault(backend) : RestoreSession(proto_ok, fs)
    \/ \E f \in StepFaults(backend) : HasStoredSession(f)
    \/ \E remote_ok \in RemoteOutcomes(C) : Logout(remote_ok, AllOk)

SpecRestore == InitClient /\ [][NextRestore]_vars

(***************************************************************************)
(* The backend selector (factory.rs) and the constructors it calls.        *)
(* LinuxStorage::new probes the secret service with a lookup of a sentinel *)
(* entry; probe is the outcome of that lookup (Entry::new included) and    *)
(* cleanup_ok whether the delete of a sentinel that was found succeeds.    *)
(* The constructors of the keychain and Windows adapters only compute the  *)
(* service name, which cannot fail.                                        *)
(***************************************************************************)
Sentinel == "__test_connection__"

NewInstance(b, plat) == [backend |-> b, data |-> EmptyMap, platform |-> plat, keys |-> {}]

Probes ==
    {NoFault, Fault("entry", "", {}, 0),
     Fault("call", "Ambiguous", {}, 0), Fault("call", "BadEncoding", {}, 0)}
    \cup {Fault("call", "PlatformFailure", m, 0) : m \in Messages}

LinuxNew(plat, probe, cleanup_ok) ==
    IF probe.at = "entry" THEN [result |-> BackendNotAvailable, s |-> NewInstance("linux", plat)]
    ELSE IF probe.at = "none"
         THEN IF Sentinel \in DOMAIN plat /\ cleanup_ok
              THEN [result |-> Ok, s |-> NewInstance("linux", MapRemove(plat, Sentinel))]
              ELSE [result |-> Ok, s |-> NewInstance("linux", plat)]
    ELSE IF probe.err = "PlatformFailure"
         THEN IF \/ Contains(probe.msg, "Secret Service")
                 \/ Contains(probe.msg, "dbus")
                 \/ Contains(probe.msg, "keyring")
              THEN [result |-> BackendNotAvailable, s |-> NewInstance("linux", plat)]
              ELSE [result |-> Ok, s |-> NewInstance("linux", plat)]
    ELSE [result |-> BackendNotAvailable, s |-> NewInstance("linux", plat)]

KeychainNew(plat) == [result |-> Ok, s |-> NewInstance("keychain", plat)]
WindowsNew(plat) == [result |-> Ok, s |-> NewInstance("windows", plat)]
create_memory_storage(plat) == [result |-> Ok, s |-> NewInstance("memory", plat)]

(* Constructor::new().context(..)? followed by Ok(Arc::new(storage)).      *)
NativeOrError(n, context) ==
    IF n.result = Ok THEN n ELSE [result |-> Err(context, n.result), s |-> n.s]

(* Mutant: the Windows build hands out the in-memory adapter.              *)
createPlatformStorageMemoryOnWindows(h, plat, probe, cleanup_ok) ==
    CASE h = "macos" -> NativeOrError(KeychainNew(plat), "Keychain")
      [] h = "linux" ->
             LET n == LinuxNew(plat, probe, cleanup_ok)
             IN  IF n.result = Ok THEN n ELSE create_memory_storage(n.s.platform)
      [] OTHER -> create_memory_storage(plat)

create_platform_storage(h, plat, probe, cleanup_ok) ==
    CASE h = "macos" -> NativeOrError(KeychainNew(plat), "Keychain")
      [] h = "windows" -> NativeOrError(WindowsNew(plat), "Windows")
      [] h = "linux" ->
             LET n == LinuxNew(plat, probe, cleanup_ok)
             IN  IF n.result = Ok THEN n ELSE create_memory_storage(n.s.platform)
      [] OTHER -> create_memory_storage(plat)

create_secure_storage(h, plat, probe, cleanup_ok) ==
    create_platform_storage(h, plat, probe, cleanup_ok)

(***************************************************************************)
(* The authentication API (api/auth.rs).  Every function obtains its own   *)
(* storage handle from create_secure_storage and its own MatrixClient, and *)
(* drops both when it returns; what outlives a call is the platform store. *)
(* env = [probe, cleanup_ok, client_ok]: the outcomes of the secret-       *)
(* service probe and of MatrixClient::new during the call.                 *)
(***************************************************************************)
AuthError(variant, detail) == [kind |-> "Err", auth |-> variant, detail |-> detail]

(* From<anyhow::Error>: an error that wraps a SecureStorageError becomes   *)
(* Storage(that error), every other one Authentication(text).              *)
StorageContexts == {"access token", "refresh token", "user ID", "device ID"}
AuthErrorFrom(e) ==
    IF e = Panic THEN Panic
    ELSE IF e.context \in StorageContexts THEN AuthError("Storage", e.source)
    ELSE AuthError("Authentication", e.context)

User(uid, restored) == [user_id |-> uid, is_restored_session |-> restored]
(* Option<User> *)
NoUser == [some |-> FALSE]
SomeUser(u) == [some |-> TRUE, user |-> u]

ApiOut(c, s, r) == [c |-> c, s |-> s, result |-> r]

FreshClient == [user_id |-> None, device_id |-> None]

api_login(h, plat, env, proto, fs) ==
    LET st == create_secure_storage(h, plat, env.probe, env.cleanup_ok)
    IN  IF st.result # Ok THEN ApiOut(FreshClient, st.s, AuthError("Storage", Internal))
        ELSE IF ~env.client_ok THEN ApiOut(FreshClient, st.s, AuthError("Network", "client"))
        ELSE LET o == login(FreshClient, st.s, proto, fs)
             IN  IF o.result # Ok THEN ApiOut(o.c, o.s, AuthErrorFrom(o.result))
                 ELSE IF o.c.user_id = None
                      THEN ApiOut(o.c, o.s, AuthError("SessionNotFound", ""))
                 ELSE ApiOut(o.c, o.s, OkValue(User(o.c.user_id, FALSE)))

(* Mutant: the restored user is built like the user of a fresh login.      *)
apiRestoreAsFreshLogin(h, plat, env, proto_ok, fs) ==
    LET st == create_secure_storage(h, plat, env.probe, env.cleanup_ok)
    IN  IF st.result # Ok THEN ApiOut(FreshClient, st.s, AuthError("Storage", Internal))
        ELSE IF ~env.client_ok THEN ApiOut(FreshClient, st.s, AuthError("Network", "client"))
        ELSE LET o == restore_session(FreshClient, st.s, fs, proto_ok)
             IN  IF o.result.kind # "Ok" THEN ApiOut(o.c, o.s, AuthErrorFrom(o.result))
                 ELSE IF o.result.value
                      THEN IF o.c.user_id = None
                           THEN ApiOut(o.c, o.s, AuthError("SessionNotFound", ""))
                           ELSE ApiOut(o.c, o.s, OkValue(SomeUser(User(o.c.user_id, FALSE))))
                 ELSE ApiOut(o.c, o.s, OkValue(NoUser))

api_restore_session(h, plat, env, proto_ok, fs) ==
    LET st == create_secure_storage(h, plat, env.probe, env.cleanup_ok)
    IN  IF st.result # Ok THEN ApiOut(FreshClient, st.s, AuthError("Storage", Internal))
        ELSE IF ~env.client_ok THEN ApiOut(FreshClient, st.s, AuthError("Network", "client"))
        ELSE LET o == restore_session(FreshClient, st.s, fs, proto_ok)
             IN  IF o.result.kind # "Ok" THEN ApiOut(o.c, o.s, AuthErrorFrom(o.result))
                 ELSE IF o.result.value
                      THEN IF o.c.user_id = None
                           THEN ApiOut(o.c, o.s, AuthError("SessionNotFound", ""))
                           ELSE ApiOut(o.c, o.s, OkValue(SomeUser(User(o.c.user_id, TRUE))))
                 ELSE ApiOut(o.c, o.s, OkValue(NoUser))

(* What an API logout did: restored is the answer of its restore_session   *)
(* (NotRestored if the call did not get that far), remote whether the      *)
(* remote logout call was made, failed the keys whose delete returned an   *)
(* error.                                                                  *)
NotRestored == [kind |-> "None"]
ApiLogoutOut(c, s, r, restored, remote, failed) ==
    [c |-> c, s |-> s, result |-> r, restored |-> restored, remote |-> remote,
     failed |-> failed]

api_logout(h, plat, env, proto_ok, rfs, remote_ok, lfs) ==
    LET st == create_secure_storage(h, plat, env.probe, env.cleanup_ok)
    IN  IF st.result # Ok
        THEN ApiLogoutOut(FreshClient, st.s, AuthError("Storage", Internal), NotRestored, FALSE, {})
        ELSE IF ~env.client_ok
        THEN ApiLogoutOut(FreshClient, st.s, AuthError("Network", "client"), NotRestored, FALSE, {})
        ELSE LET r == restore_session(FreshClient, st.s, rfs, proto_ok)
             IN  IF r.result = Panic THEN ApiLogoutOut(r.c, r.s, Panic, r.result, FALSE, {})
                 ELSE LET o == logout(r.c, r.s, remote_ok, lfs)
                      IN  ApiLogoutOut(o.c, o.s,
                                       IF o.result # Ok THEN AuthErrorFrom(o.result) ELSE Ok,
                                       r.result, o.remote, o.failed)

api_has_stored_session(h, plat, env, f) ==
    LET st == create_secure_storage(h, plat, env.probe, env.cleanup_ok)
    IN  IF st.result # Ok THEN ApiOut(FreshClient, st.s, AuthError("Storage", Internal))
        ELSE LET r == has_stored_session(st.s, f)
             IN  ApiOut(FreshClient, st.s,
                        IF r.kind = "Err" THEN AuthError("Storage", r.source) ELSE r)

(***************************************************************************)
(* The state machine of one process calling the authentication API.        *)
(* backend, data, keys, user_id and device_id show the handle and the      *)
(* client of the latest call as they were when it returned.                *)
(***************************************************************************)
(* The secret-service daemon answers the probe, is unreachable, or the     *)
(* probe fails for another reason; hosts other than Linux never probe.     *)
ApiLoginOutcomes ==
    {LoginResponse("abc123", None, "@test:matrix.org", "GHTYAJCE"),
     [ok |-> FALSE, why |-> "network"]}
DaemonUnreachable == Fault("call", "PlatformFailure", {"dbus"}, 0)
ProbeSteps(h) ==
    IF h = "linux"
    THEN {NoFault, DaemonUnreachable, Fault("call", "Ambiguous", {}, 0),
          Fault("call", "PlatformFailure", {"denied"}, 0)}
    ELSE {NoFault}
Envs(h) ==
    {[probe |-> p, cleanup_ok |-> TRUE, client_ok |-> TRUE] : p \in ProbeSteps(h)}
    \cup {[probe |-> NoFault, cleanup_ok |-> TRUE, client_ok |-> FALSE]}
    \cup (IF h = "linux" THEN {[probe |-> NoFault, cleanup_ok |-> FALSE, client_ok |-> TRUE]}
          ELSE {})
(* The storage calls of an API function all succeed, or the first or the   *)
(* last key of AuthKeys::all() meets a failing call.                       *)
ApiFaults(b) ==
    {AllOk} \cup {[AllOk EXCEPT ![k] = f] : k \in {ACCESS_TOKEN, DEVICE_ID},
                                            f \in ClientFaults(b) \ {NoFault, Fault("entry", "", {}, 0)}}
HandleBackend(h, env) == create_secure_storage(h, platform, env.probe, env.cleanup_ok).s.backend

InitApi ==
    /\ host \in Hosts
    /\ backend = "memory"
    /\ data = EmptyMap
    /\ platform \in IF host = "other" THEN {EmptyMap}
                    ELSE IF host = "linux"
                    THEN {EmptyMap, EarlierSession, [k \in {Sentinel} |-> "probe"]}
                    ELSE {EmptyMap, EarlierSession, MalformedSession}
    /\ keys = {}
    /\ user_id = None
    /\ device_id = None
    /\ expect = EmptyMap
    /\ written = {}
    /\ last = [op |-> "new", result |-> Ok, handle |-> "memory", probe |-> NoFault,
               clean |-> TRUE, after_login |-> FALSE, prev_handle |-> "memory"]
    /\ procs = <<>>

(* What every call records: the handle it obtained, the outcome of the     *)
(* probe, whether the call was free of failures of its collaborators,      *)
(* whether the call before it was a login that succeeded, and the handle   *)
(* that call obtained.                                                     *)
ApiLast(op, o, env, clean) ==
    [op |-> op, result |-> o.result, handle |-> o.s.backend, probe |-> env.probe,
     clean |-> clean /\ env.client_ok,
     after_login |-> last.op = "api_login" /\ last.result.kind = "Ok",
     prev_handle |-> last.handle]

ApiInstall(o) ==
    /\ Install(o.s)
    /\ user_id' = o.c.user_id
    /\ device_id' = o.c.device_id
    /\ UNCHANGED <<procs, host, expect, written>>

ApiLogin(env, proto, fs) ==
    \E o \in {api_login(host, platform, env, proto, fs)} :
        /\ ApiInstall(o)
        /\ last' = ApiLast("api_login", o, env, proto.ok /\ fs = AllOk)

ApiRestoreSession(env, proto_ok, fs) ==
    \E o \in {api_restore_session(host, platform, env, proto_ok, fs)} :
        /\ ApiInstall(o)
        /\ last' = ApiLast("api_restore_session", o, env, proto_ok /\ fs = AllOk)

ApiLogout(env, proto_ok, rfs, remote_ok, lfs) ==
    \E o \in {api_logout(host, platform, env, proto_ok, rfs, remote_ok, lfs)} :
        /\ ApiInstall(o)
        /\ last' = [op |-> "api_logout", result |-> o.result, handle |-> o.s.backend,
                    probe |-> env.probe,
                    clean |-> proto_ok /\ remote_ok /\ rfs = AllOk /\ lfs = AllOk
                              /\ env.client_ok,
                    after_login |-> last.op = "api_login" /\ last.result.kind = "Ok",
                    prev_handle |-> last.handle,
                    restored |-> o.restored, remote |-> o.remote, failed |-> o.failed,
                    pre |-> Stored(create_secure_storage(host, platform, env.probe,
                                                         env.cleanup_ok).s),
                    proto_ok |-> proto_ok]

ApiHasStoredSession(env, f) ==
    \E o \in {api_has_stored_session(host, platform, env, f)} :
        /\ ApiInstall(o)
        /\ last' = ApiLast("api_has_stored_session", o, env, f = NoFault)

NextApi ==
    \/ \E env \in Envs(host), proto \in ApiLoginOutcomes :
          \E fs \in ApiFaults(HandleBackend(host, env)) : ApiLogin(env, proto, fs)
    \/ \E env \in Envs(host), proto_ok \in BOOLEAN :
          \E fs \in ApiFaults(HandleBackend(host, env)) : ApiRestoreSession(env, proto_ok, fs)
    \/ \E env \in Envs(host), proto_ok \in BOOLEAN, remote_ok \in BOOLEAN :
          \E rfs \in {AllOk}, lfs \in ApiFaults(HandleBackend(host, env)) :
              ApiLogout(env, proto_ok, rfs, remote_ok, lfs)
    \/ \E env \in Envs(host) :
          \E f \in ClientFaults(HandleBackend(host, env)) : ApiHasStoredSession(env, f)

SpecApi == InitApi /\ [][NextApi]_vars

(***************************************************************************)
(* Concurrent tasks on one shared in-memory backend (tests.rs,             *)
(* test_concurrent_access): task i stores its own value under its own key, *)
(* reads it back and deletes it.  Every method of InMemoryStorage holds    *)
(* the RwLock for its whole body, so each call is one step and the steps   *)
(* of the tasks interleave freely.                                         *)
(***************************************************************************)
NumTasks == 4

TaskKeys == <<"concurrent_key_0", "concurrent_key_1", "concurrent_key_2",
              "concurrent_key_3", "concurrent_key_4", "concurrent_key_5">>
TaskValues == <<"concurrent_value_0", "concurrent_value_1", "concurrent_value_2",
                "concurrent_value_3", "concurrent_value_4", "concurrent_value_5">>
Tasks == 1..NumTasks

InitTasks ==
    /\ host = "other"
    /\ backend = "memory"
    /\ data = EmptyMap
    /\ platform = EmptyMap
    /\ keys = {}
    /\ user_id = None
    /\ device_id = None
    /\ expect = EmptyMap
    /\ written = {}
    /\ last = [op |-> "new"]
    /\ procs = [i \in Tasks |-> [pc |-> "set", seen |-> None]]

TaskSet(i) ==
    \E o \in {StorageSet(S, TaskKeys[i], TaskValues[i], NoFault)} :
        /\ procs[i].pc = "set"
        /\ o.result = Ok
        /\ Install(o.s)
        /\ procs' = [procs EXCEPT ![i].pc = "get"]
        /\ last' = [op |-> "task_set", task |-> i]
        /\ UNCHANGED <<host, user_id, device_id, expect, written>>

TaskGet(i) ==
    \E o \in {StorageGet(S, TaskKeys[i], NoFault)} :
        /\ procs[i].pc = "get"
        /\ Install(o.s)
        /\ procs' = [procs EXCEPT ![i] = [pc |-> "delete", seen |-> o.result]]
        /\ last' = [op |-> "task_get", task |-> i]
        /\ UNCHANGED <<host, user_id, device_id, expect, written>>

TaskDelete(i) ==
    \E o \in {StorageDelete(S, TaskKeys[i], NoFault)} :
        /\ procs[i].pc = "delete"
        /\ procs[i].seen = OkValue(TaskValues[i])
        /\ o.result = Ok
        /\ Install(o.s)
        /\ procs' = [procs EXCEPT ![i].pc = "done"]
        /\ last' = [op |-> "task_delete", task |-> i]
        /\ UNCHANGED <<host, user_id, device_id, expect, written>>

NextTasks ==
    \/ \E i \in Tasks : TaskSet(i)
    \/ \E i \in Tasks : TaskGet(i)
    \/ \E i \in Tasks : TaskDelete(i)

SpecTasks == InitTasks /\ [][NextTasks]_vars

(***************************************************************************)
(* The storage pass-through API (api/secure_storage.rs).  STORAGE is the   *)
(* process-wide Option<SecureStorageRef>: the variables backend, data and  *)
(* keys hold the instance it refers to, and backend = None is Option::None *)
(* (no handle installed).  The platform store exists either way.           *)
(***************************************************************************)
SecureStorageApiError(error_type) == [kind |-> "ApiErr", error_type |-> error_type]

(* From<SecureStorageError> for SecureStorageApiError *)
ApiErrorFrom(e) ==
    CASE e.kind = "KeyNotFound" -> SecureStorageApiError("KeyNotFound")
      [] e.kind = "AccessDenied" -> SecureStorageApiError("AccessDenied")
      [] e.kind = "BackendNotAvailable" -> SecureStorageApiError("BackendNotAvailable")
      [] e.kind = "InvalidInput" -> SecureStorageApiError("InvalidInput")
      [] e.kind = "Internal" -> SecureStorageApiError("InternalError")

(* .map_err(SecureStorageApiError::from) on the result of a storage call   *)
MapErr(r) == IF r.kind \in {"Ok", "Panic"} THEN r ELSE ApiErrorFrom(r)

(* From<SessionStatus> for FfiSessionStatus *)
FfiSessionStatus(status) ==
    CASE status = "Persistent" -> "Persistent"
      [] status = "NonPersistent" -> "NonPersistent"

(* ok_or_else(|| internal_error("Secure storage not initialized")) *)
NotInitialized == SecureStorageApiError("InternalError")

(* Mutant: an absent handle is treated as success and nothing is done.     *)
secureStorageSetIgnoresMissingHandle(s, key, value, f) ==
    IF s.backend = None THEN Out(s, Ok, <<>>)
    ELSE LET o == StorageSet(s, key, value, f) IN Out(o.s, MapErr(o.result), o.calls)

initialize_secure_storage(h, s, probe, cleanup_ok) ==
    LET st == create_secure_storage(h, s.platform, probe, cleanup_ok)
    IN  IF st.result # Ok
        THEN Out([s EXCEPT !.platform = st.s.platform], SecureStorageApiError("InternalError"), <<>>)
        ELSE Out(st.s, Ok, <<>>)

secure_storage_set(s, key, value, f) ==
    IF s.backend = None THEN Out(s, NotInitialized, <<>>)
    ELSE LET o == StorageSet(s, key, value, f) IN Out(o.s, MapErr(o.result), o.calls)

secure_storage_get(s, key, f) ==
    IF s.backend = None THEN Out(s, NotInitialized, <<>>)
    ELSE LET o == StorageGet(s, key, f) IN Out(o.s, MapErr(o.result), o.calls)

secure_storage_delete(s, key, f) ==
    IF s.backend = None THEN Out(s, NotInitialized, <<>>)
    ELSE LET o == StorageDelete(s, key, f) IN Out(o.s, MapErr(o.result), o.calls)

secure_storage_clear(s, order, fs) ==
    IF s.backend = None THEN Out(s, NotInitialized, <<>>)
    ELSE LET o == StorageClear(s, order, fs) IN Out(o.s, MapErr(o.result), o.calls)

secure_storage_session_status(s) ==
    IF s.backend = None THEN Out(s, NotInitialized, <<>>)
    ELSE Out(s, OkValue(FfiSessionStatus(is_persistent(s))), <<>>)

is_secure_storage_initialized(s) == s.backend # None

(* setup_test_storage of the module's tests: installs an in-memory handle. *)
setup_test_storage(s) == Out(create_memory_storage(s.platform).s, Ok, <<>>)

(***************************************************************************)
(* The state machine of the pass-through API on one host (SpecFfi).        *)
(***************************************************************************)
FfiFaults == IF backend = None THEN {NoFault} ELSE StepFaults(backend)

InitFfi ==
    /\ host \in Hosts
    /\ backend = None
    /\ data = EmptyMap
    /\ platform \in IF host = "other" THEN {EmptyMap} ELSE PartialMaps(UserKeys, {PreExisting})
    /\ keys = {}
    /\ user_id = None
    /\ device_id = None
    /\ expect = EmptyMap
    /\ written = {}
    /\ last = [op |-> "new"]
    /\ procs = <<>>

(* What every call records: the operation, its key, whether a handle was   *)
(* installed when it began, the result of the storage call it passed on    *)
(* (None when it made none) and its own result.                            *)
FfiStep(op, key, o, inner) ==
    /\ Install(o.s)
    /\ last' = [op |-> op, key |-> key, initialized |-> is_secure_storage_initialized(S),
                inner |-> inner, result |-> o.result]
    /\ UNCHANGED <<procs, host, user_id, device_id, expect, written>>

Inner(r) == IF backend = None THEN [kind |-> None] ELSE r

InitializeSecureStorage(probe, cleanup_ok) ==
    FfiStep("initialize_secure_storage", None,
            initialize_secure_storage(host, S, probe, cleanup_ok), [kind |-> None])

SetupTestStorage == FfiStep("setup_test_storage", None, setup_test_storage(S), [kind |-> None])

SecureStorageSet(key, value, f) ==
    FfiStep("secure_storage_set", key, secure_storage_set(S, key, value, f),
            Inner(StorageSet(S, key, value, f).result))

SecureStorageGet(key, f) ==
    FfiStep("secure_storage_get", key, secure_storage_get(S, key, f),
            Inner(StorageGet(S, key, f).result))

SecureStorageDelete(key, f) ==
    FfiStep("secure_storage_delete", key, secure_storage_delete(S, key, f),
            Inner(StorageDelete(S, key, f).result))

SecureStorageClear(order, fs) ==
    FfiStep("secure_storage_clear", None, secure_storage_clear(S, order, fs),
            Inner(StorageClear(S, order, fs).result))

SecureStorageSessionStatus ==
    FfiStep("secure_storage_session_status", None, secure_storage_session_status(S),
            [kind |-> None])

IsSecureStorageInitialized ==
    /\ last' = [op |-> "is_secure_storage_initialized", key |-> None,
                initialized |-> is_secure_storage_initialized(S), inner |-> [kind |-> None],
                result |-> OkValue(is_secure_storage_initialized(S))]
    /\ UNCHANGED <<procs, host, backend, data, platform, keys, user_id, device_id, expect, written>>

NextFfi ==
    \/ \E probe \in ProbeSteps(host), cleanup_ok \in BOOLEAN :
          InitializeSecureStorage(probe, cleanup_ok)
    \/ SetupTestStorage
    \/ \E key \in Keys, value \in Values, f \in FfiFaults : SecureStorageSet(key, value, f)
    \/ \E key \in Keys, f \in FfiFaults : SecureStorageGet(key, f)
    \/ \E key \in Keys, f \in FfiFaults : SecureStorageDelete(key, f)
    \/ \E order \in Orders(keys), fs \in [keys -> FfiFaults] : SecureStorageClear(order, fs)
    \/ SecureStorageSessionStatus
    \/ IsSecureStorageInitialized

SpecFfi == InitFfi /\ [][NextFfi]_vars

(***************************************************************************)
(* Concurrent callers on one LinuxStorage instance (linux.rs).  set and    *)
(* delete await the platform call on a blocking thread and update the      *)
(* tracked-key set, under its own RwLock, only after the await returned:   *)
(* the platform call and the update of the set are two steps, and steps of *)
(* different callers interleave.  clear takes a snapshot of the set and    *)
(* runs delete for each key of it.  The platform answers every call.       *)
(***************************************************************************)
NumCallers == 2

Callers == 1..NumCallers

set_password(s, key, value) == [s EXCEPT !.platform = MapInsert(s.platform, key, value)]
delete_password(s, key) == [s EXCEPT !.platform = MapRemove(s.platform, key)]
track_key(s, key) == [s EXCEPT !.keys = s.keys \cup {key}]
untrack_key(s, key) == [s EXCEPT !.keys = s.keys \ {key}]
get_tracked_keys(s) == Orders(s.keys)

(* The calls a caller makes: one set, one delete or one clear. *)
Call(op, key, pc) == [op |-> op, key |-> key, pc |-> pc, todo |-> <<>>]
Calls ==
    {Call("set", k, "call") : k \in UserKeys} \cup {Call("delete", k, "call") : k \in UserKeys}
        \cup {Call("clear", None, "snapshot")}

InitRace ==
    /\ host = "linux"
    /\ backend = "linux"
    /\ data = EmptyMap
    /\ platform = EmptyMap
    /\ keys = {}
    /\ user_id = None
    /\ device_id = None
    /\ expect = EmptyMap
    /\ written = {}
    /\ last = [op |-> "new"]
    /\ procs \in [Callers -> Calls]

RaceStep(i, s, p, op) ==
    /\ Install(s)
    /\ procs' = [procs EXCEPT ![i] = p]
    /\ last' = [op |-> op, caller |-> i]
    /\ UNCHANGED <<host, user_id, device_id, expect>>

(* set: entry.set_password(..) on the blocking thread, answered Ok. *)
RaceSetPassword(i) ==
    /\ procs[i].op = "set" /\ procs[i].pc = "call"
    /\ written' = written \cup {procs[i].key}
    /\ RaceStep(i, set_password(S, procs[i].key, "test_value"),
                [procs[i] EXCEPT !.pc = "track"], "set_password")

(* set: the Ok arm, self.track_key(&key). *)
RaceTrackKey(i) ==
    /\ procs[i].op = "set" /\ procs[i].pc = "track"
    /\ UNCHANGED written
    /\ RaceStep(i, track_key(S, procs[i].key), [procs[i] EXCEPT !.pc = "done"], "track_key")

(* delete, called directly or by the loop of clear: entry.delete_password() *)
(* on the blocking thread, answered Ok or NoEntry.                          *)
RaceDeletePassword(i) ==
    /\ \/ procs[i].op = "delete" /\ procs[i].pc = "call"
       \/ procs[i].op = "clear" /\ procs[i].pc = "loop" /\ procs[i].todo # <<>>
    /\ UNCHANGED written
    /\ RaceStep(i, delete_password(S, IF procs[i].op = "clear" THEN Head(procs[i].todo)
                                                              ELSE procs[i].key),
                [procs[i] EXCEPT !.pc = "untrack"], "delete_password")

(* delete: the Ok and NoEntry arms, self.untrack_key(&key); a delete of    *)
(* clear's loop then goes on with the next key of the snapshot.            *)
RaceUntrackKey(i) ==
    /\ procs[i].pc = "untrack"
    /\ UNCHANGED written
    /\ IF procs[i].op = "clear"
       THEN RaceStep(i, untrack_key(S, Head(procs[i].todo)),
                     [procs[i] EXCEPT !.pc = "loop", !.todo = Tail(procs[i].todo)],
                     "untrack_key")
       ELSE RaceStep(i, untrack_key(S, procs[i].key), [procs[i] EXCEPT !.pc = "done"],
                     "untrack_key")

(* clear: let keys = self.get_tracked_keys(). *)
RaceSnapshot(i) ==
    /\ procs[i].op = "clear" /\ procs[i].pc = "snapshot"
    /\ UNCHANGED written
    /\ \E order \in get_tracked_keys(S) :
          RaceStep(i, S, [procs[i] EXCEPT !.pc = "loop", !.todo = order], "get_tracked_keys")

(* clear: the loop is over and errors is empty. *)
RaceClearReturns(i) ==
    /\ procs[i].op = "clear" /\ procs[i].pc = "loop" /\ procs[i].todo = <<>>
    /\ UNCHANGED written
    /\ RaceStep(i, S, [procs[i] EXCEPT !.pc = "done"], "clear_returns")

NextRace ==
    \/ \E i \in Callers : RaceSetPassword(i)
    \/ \E i \in Callers : RaceTrackKey(i)
    \/ \E i \in Callers : RaceDeletePassword(i)
    \/ \E i \in Callers : RaceUntrackKey(i)
    \/ \E i \in Callers : RaceSnapshot(i)
    \/ \E i \in Callers : RaceClearReturns(i)

SpecRace == InitRace /\ [][NextRace]_vars

(***************************************************************************)
(* Two session managers on one shared InMemoryStorage (structs.rs): the    *)
(* first runs login, the second logout.  Each storage.set and each         *)
(* storage.delete is one step under the store's lock, and between two      *)
(* awaits of one manager the other may run.  user_id and device_id are the *)
(* ids of the manager that logs in.                                        *)
(***************************************************************************)
Managers == {1, 2}

InitSession ==
    /\ host = "other"
    /\ backend = "memory"
    /\ data \in {EmptyMap, EarlierSession}
    /\ platform = EmptyMap
    /\ keys = {}
    /\ user_id = None
    /\ device_id = None
    /\ expect = EmptyMap
    /\ written = {}
    /\ last = [op |-> "new"]
    /\ procs \in {<<[op |-> "login", pc |-> 0, proto |-> p],
                    [op |-> "logout", pc |-> 1, proto |-> p]>> : p \in LoginResponses}

(* login, lines 40-49: the protocol login answered and the ids are set.    *)
SessionAuthenticate(i) ==
    /\ procs[i].op = "login" /\ procs[i].pc = 0
    /\ user_id' = procs[i].proto.user_id
    /\ device_id' = procs[i].proto.device_id
    /\ procs' = [procs EXCEPT ![i].pc = 1]
    /\ last' = [op |-> "authenticate", manager |-> i]
    /\ UNCHANGED <<host, backend, data, platform, keys, expect, written>>

(* login, lines 51-68: the next storage.set(..).await of the login.        *)
SessionSet(i) ==
    /\ procs[i].op = "login" /\ procs[i].pc \in DOMAIN LoginOrder(procs[i].proto)
    /\ \E k \in {LoginOrder(procs[i].proto)[procs[i].pc]} :
          \E o \in {StorageSet(S, k, LoginValue(procs[i].proto, k), NoFault)} :
              /\ Install(o.s)
              /\ last' = [op |-> "set", manager |-> i, key |-> k]
    /\ procs' = [procs EXCEPT ![i].pc = @ + 1]
    /\ UNCHANGED <<host, user_id, device_id, expect, written>>

(* logout, lines 161-166: the next storage.delete(key).await of the loop.  *)
SessionDelete(i) ==
    /\ procs[i].op = "logout" /\ procs[i].pc \in DOMAIN AuthKeysAll
    /\ \E o \in {StorageDelete(S, AuthKeysAll[procs[i].pc], NoFault)} :
          /\ Install(o.s)
          /\ last' = [op |-> "delete", manager |-> i, key |-> AuthKeysAll[procs[i].pc]]
    /\ procs' = [procs EXCEPT ![i].pc = @ + 1]
    /\ UNCHANGED <<host, user_id, device_id, expect, written>>

SessionDone(i) ==
    IF procs[i].op = "login" THEN procs[i].pc > Len(LoginOrder(procs[i].proto))
    ELSE procs[i].pc > Len(AuthKeysAll)

NextSession ==
    \/ \E i \in Managers : SessionAuthenticate(i)
    \/ \E i \in Managers : SessionSet(i)
    \/ \E i \in Managers : SessionDelete(i)

SpecSession == InitSession /\ [][NextSession]_vars

(***************************************************************************)
(* The global handle of the pass-through API under concurrent callers      *)
(* (api/secure_storage.rs).  STORAGE is a tokio RwLock around the optional *)
(* handle.  A pass-through call takes the read guard, keeps it across the  *)
(* awaits of the storage call and drops it when it returns;                *)
(* initialize_secure_storage builds the new backend without the lock, then *)
(* takes the write guard and replaces the handle.  One caller makes        *)
(* pass-through calls while another initializes again and again.           *)
(* procs.gen counts the handles installed so far, procs.readers the read   *)
(* guards held, procs.op the pass-through call in progress (gen: the       *)
(* handle it found when it took the guard), procs.init the initialization  *)
(* in progress (made: the backend it built).                               *)
(***************************************************************************)
MaxInits == 2

PassThroughCalls == {"secure_storage_set", "secure_storage_get", "secure_storage_delete",
                     "secure_storage_clear"}

(* Mutant: the write guard is granted while read guards are held.          *)
writeGuardIgnoresReaders(readers) == TRUE

(* STORAGE.write().await is granted when no read guard is held.            *)
write_guard_free(readers) == readers = 0

Idle == [pc |-> "idle", call |-> None, key |-> None, gen |-> 0]

InitHandle ==
    /\ host \in Hosts
    /\ backend = None
    /\ data = EmptyMap
    /\ platform = EmptyMap
    /\ keys = {}
    /\ user_id = None
    /\ device_id = None
    /\ expect = EmptyMap
    /\ written = {}
    /\ last = [op |-> "new", result |-> Ok]
    /\ procs = [gen |-> 0, readers |-> 0, op |-> Idle, init |-> [pc |-> "idle", made |-> None]]

(* let storage_guard = STORAGE.read().await; as_ref().ok_or_else(..)?: a   *)
(* call that finds no handle returns the error and drops the guard.        *)
HandleRead(call, key) ==
    /\ procs.op.pc = "idle"
    /\ IF is_secure_storage_initialized(S)
       THEN /\ procs' = [procs EXCEPT !.readers = @ + 1,
                                      !.op = [pc |-> "call", call |-> call, key |-> key,
                                              gen |-> procs.gen]]
            /\ last' = [op |-> "read_guard", result |-> Ok]
       ELSE /\ procs' = procs
            /\ last' = [op |-> call, result |-> NotInitialized]
    /\ UNCHANGED <<host, backend, data, platform, keys, user_id, device_id, expect, written>>

(* The storage call up to its last await: the platform call of a set or a  *)
(* delete of a key-tracking adapter, the whole call otherwise.             *)
HandleCall ==
    /\ procs.op.pc = "call"
    /\ \E s \in {CASE procs.op.call = "secure_storage_set" ->
                        IF backend \in Tracking
                        THEN set_password(S, procs.op.key, "test_value")
                        ELSE StorageSet(S, procs.op.key, "test_value", NoFault).s
                   [] procs.op.call = "secure_storage_delete" ->
                        IF backend \in Tracking
                        THEN delete_password(S, procs.op.key)
                        ELSE StorageDelete(S, procs.op.key, NoFault).s
                   [] procs.op.call = "secure_storage_clear" ->
                        StorageClear(S, CHOOSE o \in Orders(keys) : TRUE,
                                     [k \in keys |-> NoFault]).s
                   [] OTHER -> S} :
          Install(s)
    /\ procs' = [procs EXCEPT !.op.pc = "return"]
    /\ last' = [op |-> "call", result |-> Ok]
    /\ UNCHANGED <<host, user_id, device_id, expect, written>>

(* The rest of the storage call (track_key, untrack_key) and the return,   *)
(* which drops the read guard.                                             *)
HandleReturn ==
    /\ procs.op.pc = "return"
    /\ \E s \in {IF backend \in Tracking /\ procs.op.call = "secure_storage_set"
                   THEN track_key(S, procs.op.key)
                   ELSE IF backend \in Tracking /\ procs.op.call = "secure_storage_delete"
                   THEN untrack_key(S, procs.op.key)
                   ELSE S} :
          Install(s)
    /\ procs' = [procs EXCEPT !.readers = @ - 1, !.op = Idle]
    /\ last' = [op |-> procs.op.call, result |-> Ok]
    /\ UNCHANGED <<host, user_id, device_id, expect, written>>

(* initialize_secure_storage, lines 111-113: create_secure_storage().await *)
(* and the `?` that returns its error.                                     *)
HandleCreate(probe, cleanup_ok) ==
    /\ procs.init.pc = "idle"
    /\ procs.gen < MaxInits
    /\ \E st \in {create_secure_storage(host, platform, probe, cleanup_ok)} :
          /\ platform' = st.s.platform
          /\ IF st.result = Ok
             THEN /\ procs' = [procs EXCEPT !.init = [pc |-> "write", made |-> st.s.backend]]
                  /\ last' = [op |-> "create_secure_storage", result |-> Ok]
             ELSE /\ procs' = procs
                  /\ last' = [op |-> "initialize_secure_storage",
                              result |-> SecureStorageApiError("InternalError")]
    /\ UNCHANGED <<host, backend, data, keys, user_id, device_id, expect, written>>

(* initialize_secure_storage, lines 115-119: the write guard is taken, the *)
(* handle replaced by the new backend and the guard dropped.               *)
HandleInstall ==
    /\ procs.init.pc = "write"
    /\ write_guard_free(procs.readers)
    /\ Install(NewInstance(procs.init.made, platform))
    /\ procs' = [procs EXCEPT !.gen = @ + 1, !.init = [pc |-> "idle", made |-> None]]
    /\ last' = [op |-> "initialize_secure_storage", result |-> Ok]
    /\ UNCHANGED <<host, user_id, device_id, expect, written>>

NextHandle ==
    \/ \E call \in PassThroughCalls, key \in UserKeys : HandleRead(call, key)
    \/ HandleCall
    \/ HandleReturn
    \/ \E probe \in ProbeSteps(host), cleanup_ok \in BOOLEAN : HandleCreate(probe, cleanup_ok)
    \/ HandleInstall

SpecHandle == InitHandle /\ [][NextHandle]_vars

(***************************************************************************)
(* Properties of one storage instance (SpecStore).                         *)
(*   expect  : per key, the value of the latest set that returned Ok and   *)
(*             was not followed by a delete or clear that returned Ok      *)
(*   written : the keys some set through this instance returned Ok for     *)
(***************************************************************************)

(* C1: on the in-memory backend the map holds, for every key, exactly the  *)
(* value of the most recent successful set not followed by a delete of     *)
(* that key or a clear; get of a non-empty key returns that value; a set   *)
(* makes its key hold the new value (overwriting) and, the map being equal *)
(* to expect, touches no other key.                                        *)
C1_GetReturnsLatestSet ==
    backend = "memory" =>
        /\ data = expect
        /\ \A k \in DOMAIN expect : MemGet(S, k).result = OkValue(expect[k])
        /\ (last.op = "get" /\ last.key \in DOMAIN expect) =>
               last.result = OkValue(expect[last.key])
        /\ (last.op = "set" /\ last.key # EmptyKey) =>
               /\ last.result = Ok
               /\ MemGet(S, last.key).result = OkValue(last.value)

C1_Witness ==
    /\ backend = "memory"
    /\ last.op = "set"
    /\ last.prior \notin {None, last.value}
    /\ MemGet(S, last.key).result = OkValue(last.value)
    /\ \E k \in DOMAIN data : k # last.key /\ data[k] # last.value

C4_ClearRemovesWrittenKeys ==
    (last.op = "clear" /\ last.result = Ok /\ backend \in {"memory"} \cup Tracking) =>
        \A k \in written : StorageGet(S, k, NoFault).result = KeyNotFound(k)

C4_Witness ==
    /\ backend \in Tracking
    /\ last.op = "clear"
    /\ last.result = Ok
    /\ Len(last.calls) >= 4
    /\ written = UserKeys
    /\ platform = EmptyMap

(* C5: on every backend set, get and delete of the empty key return        *)
(* InvalidInput whatever the platform would answer, issue no platform call *)
(* and leave the records and the tracked keys as they were.                *)
C5_EmptyKeyRejected ==
    /\ \A f \in FaultsOf(backend) :
          /\ \A v \in Values : StorageSet(S, EmptyKey, v, f) = Out(S, InvalidInput, <<>>)
          /\ StorageGet(S, EmptyKey, f) = Out(S, InvalidInput, <<>>)
          /\ StorageDelete(S, EmptyKey, f) = Out(S, InvalidInput, <<>>)
    /\ (last.op \in {"set", "get", "delete"} /\ last.key = EmptyKey) =>
          /\ last.result = InvalidInput
          /\ last.calls = <<>>

C5_Witness ==
    /\ backend = "linux"
    /\ last.op = "set"
    /\ last.key = EmptyKey
    /\ last.result = InvalidInput
    /\ keys # {}

(* C6: is_persistent reports NonPersistent on the in-memory backend and    *)
(* Persistent on the keychain, Windows and Linux backends, and no          *)
(* operation, failed ones included, changes what an instance reports.      *)
C6_PersistenceStatusFixed ==
    /\ [](/\ is_persistent(S) = IF backend = "memory" THEN "NonPersistent" ELSE "Persistent"
          /\ last.op = "is_persistent" => last.result = is_persistent(S))
    /\ [][is_persistent(S)' = is_persistent(S)]_vars

C6_Witness ==
    /\ backend = "linux"
    /\ last.op = "is_persistent"
    /\ last.result = "Persistent"
    /\ written # {}
    /\ keys = {}


(***************************************************************************)
(* Properties of the session manager (SpecClient).                         *)
(***************************************************************************)

(* C7: when the protocol login fails, login returns an error, makes no     *)
(* storage write, leaves the storage instance and the client exactly as    *)
(* they were, so an empty store stays empty and a LoggedOut client stays   *)
(* LoggedOut.                                                              *)
C7_ProtocolFailureWritesNothing ==
    /\ [](/\ \A p \in LoginFailures, fs \in OneFault(backend) :
                LET o == login(C, S, p, fs)
                IN  o.result.kind = "Err" /\ o.writes = <<>> /\ o.s = S /\ o.c = C
          /\ (last.op = "login" /\ ~last.proto.ok) =>
                /\ last.result.kind = "Err"
                /\ last.writes = <<>>
                /\ ~last.pre_logged_in => ~is_logged_in(C)
                /\ ~last.pre_stored => AuthKeys \cap DOMAIN Stored(S) = {})
    /\ [][(last'.op = "login" /\ ~last'.proto.ok) => (S' = S /\ C' = C)]_vars

C7_Witness ==
    /\ backend = "memory"
    /\ last.op = "login"
    /\ ~last.proto.ok
    /\ last.result.kind = "Err"
    /\ ~is_logged_in(C)
    /\ data = EmptyMap

(* C8: when the protocol login succeeds and every write succeeds, login    *)
(* returns Ok; after a login that returned Ok the client is LoggedIn with  *)
(* the returned user and device id, the access-token, user-id and          *)
(* device-id records equal the returned values, the refresh-token record   *)
(* equals the returned refresh token when there is one, and the probe of   *)
(* the access-token key answers true.                                      *)
C8_SuccessfulLoginStoresSession ==
    /\ \A p \in LoginResponses : login(C, S, p, AllOk).result = Ok
    /\ (last.op = "login" /\ last.result = Ok) =>
          LET p == last.proto
          IN  /\ p.ok
              /\ is_logged_in(C)
              /\ user_id = p.user_id
              /\ device_id = p.device_id
              /\ StorageGet(S, ACCESS_TOKEN, NoFault).result = OkValue(p.access_token)
              /\ StorageGet(S, USER_ID, NoFault).result = OkValue(p.user_id)
              /\ StorageGet(S, DEVICE_ID, NoFault).result = OkValue(p.device_id)
              /\ p.refresh_token # None =>
                    StorageGet(S, REFRESH_TOKEN, NoFault).result = OkValue(p.refresh_token)
              /\ has_stored_session(S, NoFault) = OkValue(TRUE)

C8_Witness ==
    /\ backend = "memory"
    /\ last.op = "login"
    /\ last.result = Ok
    /\ last.proto.refresh_token = None
    /\ REFRESH_TOKEN \notin DOMAIN data
    /\ MemGet(S, ACCESS_TOKEN).result = OkValue("abc123")

(* C9: when the protocol login succeeded and login returned an error       *)
(* because a storage write failed, a client that was LoggedOut does not    *)
(* report LoggedIn.                                                        *)
C9_NotLoggedInAfterFailedWrite ==
    (last.op = "login" /\ last.proto.ok /\ last.result.kind = "Err" /\ ~last.pre_logged_in) =>
        ~is_logged_in(C)

(* C10: when login returned an error on a store that held no session       *)
(* credential, the probe of the access-token key answers false.            *)
C10_FailedLoginLeavesNoCredentials ==
    (last.op = "login" /\ last.result.kind = "Err" /\ ~last.pre_stored) =>
        has_stored_session(S, NoFault) = OkValue(FALSE)


(***************************************************************************)
(* Properties of session restoration (SpecRestore).                        *)
(***************************************************************************)

(* C11: on a store without an access-token record restore_session returns  *)
(* Ok(false), not an error, whichever of the other credential records are  *)
(* present and whatever the reads of the other keys or the protocol would  *)
(* answer, and it leaves the client as it was: a LoggedOut client stays    *)
(* LoggedOut.                                                              *)
C11_RestoreWithoutTokenIsNoSession ==
    /\ ACCESS_TOKEN \notin DOMAIN Stored(S) =>
          \A ok \in BOOLEAN, fs \in OneFault(backend) :
              fs[ACCESS_TOKEN] = NoFault =>
                  restore_session(C, S, fs, ok) = RestoreOut(C, S, OkValue(FALSE), <<ACCESS_TOKEN>>)
    /\ (last.op = "restore" /\ last.token_read.kind = "KeyNotFound") =>
          /\ last.result = OkValue(FALSE)
          /\ C = last.pre
          /\ ~is_logged_in(last.pre) => ~is_logged_in(C)

C11_Witness ==
    /\ last.op = "restore"
    /\ last.token_read = KeyNotFound(ACCESS_TOKEN)
    /\ last.result = OkValue(FALSE)
    /\ {USER_ID, DEVICE_ID, REFRESH_TOKEN} \subseteq DOMAIN Stored(S)
    /\ ~is_logged_in(C)

(* C12: when the access-token record is present and the user-id record or  *)
(* the device-id record is absent, or the stored user id is not a          *)
(* well-formed id, restore_session returns an error, never Ok(false) and   *)
(* never Ok(true), and leaves the client as it was.                        *)
StoredSessionIncomplete ==
    /\ ACCESS_TOKEN \in DOMAIN Stored(S)
    /\ \/ USER_ID \notin DOMAIN Stored(S)
       \/ DEVICE_ID \notin DOMAIN Stored(S)
       \/ Stored(S)[USER_ID] \notin WellFormedUserIds

C12_RestoreIncompleteIsError ==
    /\ StoredSessionIncomplete =>
          \A ok \in BOOLEAN :
              LET o == restore_session(C, S, AllOk, ok)
              IN  o.result.kind = "Err" /\ o.c = C
    /\ (last.op = "restore" /\ last.token_read.kind = "Ok" /\ StoredSessionIncomplete) =>
          /\ last.result \notin {OkValue(TRUE), OkValue(FALSE)}
          /\ C = last.pre
          /\ ~is_logged_in(last.pre) => ~is_logged_in(C)

C12_Witness ==
    /\ last.op = "restore"
    /\ last.proto_ok
    /\ last.token_read.kind = "Ok"
    /\ {USER_ID, DEVICE_ID} \subseteq DOMAIN Stored(S)
    /\ Stored(S)[USER_ID] = "invalid_user_id_format"
    /\ last.result.kind = "Err"
    /\ ~is_logged_in(C)

(* C13: when the access-token, user-id and device-id records are present,  *)
(* the stored user id is well formed, their reads succeed and the protocol *)
(* restore succeeds, restore_session returns Ok(true) whether the          *)
(* refresh-token read finds a record, finds none or fails, and afterwards  *)
(* the client is LoggedIn with the stored user id and device id.           *)
StoredSessionComplete ==
    /\ {ACCESS_TOKEN, USER_ID, DEVICE_ID} \subseteq DOMAIN Stored(S)
    /\ Stored(S)[USER_ID] \in WellFormedUserIds

C13_RestoreCompleteSucceeds ==
    /\ StoredSessionComplete =>
          \A f \in FaultsOf(backend) :
              ~Unwinds(backend, f) =>
                  LET o == restore_session(C, S, [AllOk EXCEPT ![REFRESH_TOKEN] = f], TRUE)
                  IN  /\ o.result = OkValue(TRUE)
                      /\ o.c = [user_id |-> Stored(S)[USER_ID], device_id |-> Stored(S)[DEVICE_ID]]
    /\ (last.op = "restore" /\ last.result = OkValue(TRUE)) =>
          /\ StoredSessionComplete
          /\ is_logged_in(C)
          /\ user_id = Stored(S)[USER_ID]
          /\ device_id = Stored(S)[DEVICE_ID]

C13_Witness ==
    /\ last.op = "restore"
    /\ last.result = OkValue(TRUE)
    /\ last.refresh_read = KeyNotFound(REFRESH_TOKEN)
    /\ ~is_logged_in(last.pre)
    /\ is_logged_in(C)
    /\ user_id = Stored(S)[USER_ID]

(* C14: when the access-token read of restore_session fails with           *)
(* AccessDenied, BackendNotAvailable or Internal, restore_session returns  *)
(* an error.                                                               *)
C14_TokenReadErrorSurfaced ==
    (last.op = "restore"
        /\ last.token_read.kind \in {"AccessDenied", "BackendNotAvailable", "Internal"}) =>
        last.result.kind = "Err"


(***************************************************************************)
(* Properties of logout (SpecClient).                                      *)
(***************************************************************************)

(* C15: from a LoggedIn and from a LoggedOut client, whether the remote    *)
(* logout call succeeds or fails and whichever deletes return an error,    *)
(* logout returns Ok and leaves the client LoggedOut with both ids         *)
(* cleared.                                                                *)
C15_LogoutAlwaysLoggedOut ==
    /\ \A remote_ok \in BOOLEAN, fs \in [AuthKeys -> ClientFaults(backend)] :
          (\A k \in AuthKeys : ~Unwinds(backend, fs[k])) =>
              LET o == logout(C, S, remote_ok, fs)
              IN  /\ o.result = Ok
                  /\ o.c = [user_id |-> None, device_id |-> None]
                  /\ ~is_logged_in(o.c)
    /\ \A k \in AuthKeys, f \in FaultsOf(backend) :
          ~Unwinds(backend, f) => logout(C, S, FALSE, [AllOk EXCEPT ![k] = f]).result = Ok
    /\ last.op = "logout" =>
          /\ user_id = None
          /\ device_id = None
          /\ ~is_logged_in(C)
          /\ last.result # Panic => last.result = Ok

C15_Witness ==
    /\ last.op = "logout"
    /\ last.remote
    /\ ~last.remote_ok
    /\ last.failed # {}
    /\ last.result = Ok
    /\ ~is_logged_in(C)

(* C16: after a logout all of whose deletes succeeded none of the four     *)
(* credential keys is present and the probe of the access-token key        *)
(* answers false, whether or not the remote logout call failed and         *)
(* whichever of the four records were present before.                      *)
C16_LogoutRemovesAllKeys ==
    /\ \A remote_ok \in BOOLEAN :
          LET o == logout(C, S, remote_ok, AllOk)
          IN  /\ {ACCESS_TOKEN, REFRESH_TOKEN, USER_ID, DEVICE_ID} \cap DOMAIN Stored(o.s) = {}
              /\ has_stored_session(o.s, NoFault) = OkValue(FALSE)
    /\ (last.op = "logout" /\ last.failed = {}) =>
          /\ {ACCESS_TOKEN, REFRESH_TOKEN, USER_ID, DEVICE_ID} \cap DOMAIN Stored(S) = {}
          /\ \A k \in {ACCESS_TOKEN, REFRESH_TOKEN, USER_ID, DEVICE_ID} :
                StorageGet(S, k, NoFault).result = KeyNotFound(k)
          /\ has_stored_session(S, NoFault) = OkValue(FALSE)

C16_Witness ==
    /\ last.op = "logout"
    /\ last.failed = {}
    /\ last.remote
    /\ ~last.remote_ok
    /\ last.pre_keys = {ACCESS_TOKEN, REFRESH_TOKEN, USER_ID, DEVICE_ID}
    /\ has_stored_session(S, NoFault) = OkValue(FALSE)

(* C17: after logout returned, none of the four credential records is      *)
(* present in the store, also when a delete reported a failure.            *)
C17_LogoutLeavesNoCredentials ==
    (last.op = "logout" /\ last.result = Ok) =>
        {ACCESS_TOKEN, REFRESH_TOKEN, USER_ID, DEVICE_ID} \cap DOMAIN Stored(S) = {}


(***************************************************************************)
(* Properties of the probe has_stored_session (SpecRestore).               *)
(***************************************************************************)

(* C18: has_stored_session reads the access-token key only and changes no  *)
(* record; it answers true when the read returns a value, which happens    *)
(* only if the record is present, false when the read returns KeyNotFound, *)
(* whichever other credential records exist, and an error carrying the     *)
(* storage error for every other error the read returns; with the platform *)
(* answering it is true exactly if the record is present.                  *)
C18_ProbeIsPureQuery ==
    /\ \A f \in FaultsOf(backend) :
          LET o == StorageGet(S, ACCESS_TOKEN, f)
              r == has_stored_session(S, f)
          IN  /\ o.s = S
              /\ o.result.kind = "Ok" => (r = OkValue(TRUE) /\ ACCESS_TOKEN \in DOMAIN Stored(S))
              /\ o.result.kind = "KeyNotFound" => r = OkValue(FALSE)
              /\ o.result.kind \in ErrorKinds \ {"KeyNotFound"} => r = Err("Storage", o.result)
    /\ has_stored_session(S, NoFault) = OkValue(ACCESS_TOKEN \in DOMAIN Stored(S))
    /\ last.op = "has_stored_session" =>
          /\ last.read.kind = "Ok" => last.result = OkValue(TRUE)
          /\ last.read.kind = "KeyNotFound" => last.result = OkValue(FALSE)
          /\ last.read.kind \in ErrorKinds \ {"KeyNotFound"} => last.result.kind = "Err"

C18_Witness ==
    /\ last.op = "has_stored_session"
    /\ last.read.kind \in ErrorKinds \ {"KeyNotFound"}
    /\ last.result = Err("Storage", last.read)
    /\ DOMAIN Stored(S) = {ACCESS_TOKEN, USER_ID}


(***************************************************************************)
(* Properties of the authentication API and the backend selector (SpecApi).*)
(***************************************************************************)

(* C19: when an API login succeeded and the next API call of the process   *)
(* is given a backend of the same kind and runs without any failure of     *)
(* the storage platform or the protocol, has_stored_session answers true   *)
(* and restore_session returns the restored user, on every host, the       *)
(* in-memory fallback included.                                            *)
C19_ApiCallsShareStorage ==
    (last.after_login /\ last.clean /\ last.handle = last.prev_handle) =>
        /\ last.op = "api_has_stored_session" => last.result = OkValue(TRUE)
        /\ last.op = "api_restore_session" =>
              (last.result.kind = "Ok" /\ last.result.value.some)

(* C20: on Linux the selector hands out the in-memory backend only when    *)
(* the probe of the secret service failed because the daemon is            *)
(* unreachable (a platform failure that names the secret service, dbus or  *)
(* the keyring); after any other failed construction the call does not     *)
(* get an in-memory handle.                                                *)
C20_FallbackOnlyWhenDaemonUnreachable ==
    (host = "linux" /\ last.op # "new" /\ last.handle = "memory") =>
        /\ last.probe.at = "call"
        /\ last.probe.err = "PlatformFailure"
        /\ \/ Contains(last.probe.msg, "Secret Service")
           \/ Contains(last.probe.msg, "dbus")
           \/ Contains(last.probe.msg, "keyring")

(* C21: on a keychain host and on Windows the selector returns the native  *)
(* adapter and never the in-memory one, and a constructor failure would be *)
(* returned as an error wrapping it; on a host without a native facility   *)
(* it returns the in-memory adapter; create_memory_storage always yields   *)
(* an in-memory instance, which reports NonPersistent.                     *)
C21_NativeHostsNeverFallBack ==
    /\ \A p \in Probes, c \in BOOLEAN :
          LET st == create_secure_storage(host, platform, p, c)
          IN  /\ host = "macos" => (st.result = Ok /\ st.s.backend = "keychain")
              /\ host = "windows" => (st.result = Ok /\ st.s.backend = "windows")
              /\ host = "other" => (st.result = Ok /\ st.s.backend = "memory")
    /\ \A b \in {"keychain", "windows"}, e \in {Internal, BackendNotAvailable} :
          NativeOrError([result |-> e, s |-> NewInstance(b, platform)], b).result = Err(b, e)
    /\ LET m == create_memory_storage(platform)
       IN  m.result = Ok /\ m.s.backend = "memory" /\ is_persistent(m.s) = "NonPersistent"
    /\ last.op # "new" =>
          /\ host = "macos" => last.handle = "keychain"
          /\ host = "windows" => last.handle = "windows"
          /\ host = "other" => last.handle = "memory"

C21_Witness ==
    /\ host = "windows"
    /\ last.op = "api_login"
    /\ last.result.kind = "Ok"
    /\ last.handle = "windows"
    /\ ACCESS_TOKEN \in DOMAIN platform


(***************************************************************************)
(* Properties of concurrent tasks on the in-memory backend (SpecTasks).    *)
(***************************************************************************)

(* C22: under every interleaving of the tasks' set, get and delete calls   *)
(* on pairwise distinct keys, each task's get returns the value that task  *)
(* stored, and at every moment the map holds exactly the pairs of the      *)
(* tasks that have stored and not yet deleted: no update is lost and no    *)
(* key carries another task's value.                                       *)
C22_TasksSeeOwnValues ==
    /\ \A i \in Tasks :
          /\ procs[i].pc \in {"delete", "done"} => procs[i].seen = OkValue(TaskValues[i])
          /\ procs[i].pc \in {"get", "delete"} =>
                StorageGet(S, TaskKeys[i], NoFault).result = OkValue(TaskValues[i])
    /\ DOMAIN data = {TaskKeys[i] : i \in {j \in Tasks : procs[j].pc \in {"get", "delete"}}}

C22_Witness ==
    /\ \A i \in Tasks : procs[i].pc = "done" /\ procs[i].seen = OkValue(TaskValues[i])
    /\ data = EmptyMap
    /\ last.op = "task_delete"


(***************************************************************************)
(* Properties of the error taxonomy and of clear (SpecStore).              *)
(***************************************************************************)

(* C23: every set, get, delete and clear call on every backend completes   *)
(* by returning Ok or one of the five SecureStorageError kinds, whatever   *)
(* the platform answers, a failure to create the entry handle included;    *)
(* none ends in a panic.                                                   *)
C23_TaxonomyClosed ==
    last.op \in {"set", "get", "delete", "clear"} =>
        last.result.kind \in {"Ok"} \cup ErrorKinds

(* C24: on the keychain backend clear returns Internal in every state and  *)
(* never Ok, and the step removes nothing: every key stored before the     *)
(* call is retrievable after it with the value it had.                     *)
C24_KeychainClearUnsupported ==
    /\ []((backend = "keychain" /\ last.op = "clear") => last.result = Internal)
    /\ [][(backend = "keychain" /\ last'.op = "clear") =>
            /\ last'.result = Internal
            /\ platform' = platform
            /\ \A k \in DOMAIN platform :
                  StorageGet(S', k, NoFault).result = OkValue(platform[k])]_vars

C24_Witness ==
    /\ backend = "keychain"
    /\ last.op = "clear"
    /\ last.result = Internal
    /\ platform # EmptyMap
    /\ expect # EmptyMap

(* C25: on a key-tracking backend, whatever the iteration order and        *)
(* whichever deletes return an error, clear attempts the delete of every   *)
(* tracked key; it returns Ok exactly if no delete failed, and otherwise   *)
(* Internal naming every failed key and no other; the keys whose delete    *)
(* succeeded are gone from the store and untracked, the failed keys stay   *)
(* stored and tracked.                                                     *)
C25_ClearAggregatesFailures ==
    backend \in Tracking =>
        /\ \A order \in Orders(keys), fs \in [keys -> StepFaults(backend)] :
              (\A k \in keys : ~Unwinds(backend, fs[k])) =>
                  LET o == StorageClear(S, order, fs)
                      failed == {k \in keys : StorageDelete(S, k, fs[k]).result.kind # "Ok"}
                      attempts == {i \in DOMAIN o.calls : o.calls[i] = "Entry::new"}
                  IN  /\ Cardinality(attempts) = Cardinality(keys)
                      /\ o.result = Ok <=> failed = {}
                      /\ failed # {} =>
                            /\ o.result.kind = "Internal"
                            /\ {o.result.failed[i] : i \in DOMAIN o.result.failed} = failed
                            /\ Len(o.result.failed) = Cardinality(failed)
                      /\ o.s.keys = failed
                      /\ \A k \in keys \ failed : k \notin DOMAIN o.s.platform
                      /\ \A k \in failed : Prior(o.s, k) = Prior(S, k)
        /\ (last.op = "clear" /\ last.result # Panic) =>
              /\ last.result = Ok <=> keys = {}
              /\ last.result # Ok =>
                    /\ last.result.kind = "Internal"
                    /\ {last.result.failed[i] : i \in DOMAIN last.result.failed} = keys
                    /\ keys \subseteq DOMAIN platform

C25_Witness ==
    /\ backend = "linux"
    /\ last.op = "clear"
    /\ last.result.kind = "Internal"
    /\ Len(last.result.failed) = 1
    /\ Cardinality(keys) = 1
    /\ last.calls = <<"Entry::new", "Entry::new", "delete_password">>
    /\ Cardinality(DOMAIN platform) = 1


(***************************************************************************)
(* Properties of the results of the authentication API (SpecApi).          *)
(***************************************************************************)

(* C26: api restore_session returns Ok(None), or Ok(Some(user)) where user *)
(* carries the stored user id and is_restored_session = true, or an error; *)
(* it returns Ok(None) when the store its handle reads holds no access     *)
(* token; the user api login returns has is_restored_session = false, so   *)
(* the two are never equal.                                                *)
C26_RestoreOutcomes ==
    /\ \A env \in Envs(host), proto_ok \in BOOLEAN :
          \A fs \in ApiFaults(HandleBackend(host, env)) :
              LET o == api_restore_session(host, platform, env, proto_ok, fs)
                  st == create_secure_storage(host, platform, env.probe, env.cleanup_ok).s
              IN  /\ \/ o.result = OkValue(NoUser)
                     \/ /\ o.result.kind = "Ok"
                        /\ o.result.value.some
                        /\ o.result.value.user.is_restored_session
                        /\ USER_ID \in DOMAIN Stored(st)
                        /\ o.result.value.user.user_id = Stored(st)[USER_ID]
                     \/ o.result.kind = "Err"
                  /\ (env.client_ok /\ ACCESS_TOKEN \notin DOMAIN Stored(st) /\ fs = AllOk) =>
                        o.result = OkValue(NoUser)
    /\ \A env \in Envs(host), proto \in ApiLoginOutcomes :
          \A fs \in ApiFaults(HandleBackend(host, env)) :
              LET o == api_login(host, platform, env, proto, fs)
              IN  o.result.kind = "Ok" =>
                      /\ o.result.value = User(proto.user_id, FALSE)
                      /\ ~o.result.value.is_restored_session
    /\ last.op = "api_restore_session" =>
          \/ last.result = OkValue(NoUser)
          \/ /\ last.result.kind = "Ok"
             /\ last.result.value.some
             /\ last.result.value.user = User(user_id, TRUE)
             /\ user_id = Stored(S)[USER_ID]
          \/ last.result.kind = "Err"
    /\ (last.op = "api_login" /\ last.result.kind = "Ok") =>
          last.result.value = User(user_id, FALSE)

C26_Witness ==
    /\ last.op = "api_restore_session"
    /\ last.after_login
    /\ last.result = OkValue(SomeUser(User("@test:matrix.org", TRUE)))
    /\ user_id = "@test:matrix.org"


(***************************************************************************)
(* Properties of the storage pass-through API (SpecFfi).                   *)
(***************************************************************************)

(* C27: while no handle is installed, secure_storage_set, get, delete,     *)
(* clear and session_status fail with error_type InternalError and change  *)
(* nothing, and is_secure_storage_initialized is false; once a handle is   *)
(* installed each returns the result of the backend call, errors mapped to *)
(* their error_type, and a get of a key whose delete succeeded fails with  *)
(* error_type KeyNotFound.                                                 *)
PassThroughOps ==
    {"secure_storage_set", "secure_storage_get", "secure_storage_delete",
     "secure_storage_clear", "secure_storage_session_status"}

C27_PassThroughNeedsHandle ==
    /\ [](/\ (last.op \in PassThroughOps /\ ~last.initialized) =>
                /\ last.result = SecureStorageApiError("InternalError")
                /\ backend = None
                /\ ~is_secure_storage_initialized(S)
          /\ (backend = None) <=> ~is_secure_storage_initialized(S)
          /\ (last.op = "is_secure_storage_initialized") =>
                (last.result = OkValue(TRUE) <=> backend # None)
          /\ (last.op \in PassThroughOps \ {"secure_storage_session_status"}
                /\ last.initialized /\ last.result.kind # "Panic") =>
                /\ last.result.kind = "Ok" => last.result = last.inner
                /\ last.result.kind # "Ok" =>
                      /\ last.inner.kind \in ErrorKinds
                      /\ last.result.kind = "ApiErr"
                      /\ last.result.error_type =
                            IF last.inner.kind = "Internal" THEN "InternalError"
                            ELSE last.inner.kind
          /\ (last.op = "secure_storage_session_status" /\ last.initialized) =>
                last.result = OkValue(is_persistent(S))
          /\ (last.op = "secure_storage_delete" /\ last.result = Ok) =>
                secure_storage_get(S, last.key, NoFault).result
                    = SecureStorageApiError("KeyNotFound"))
    /\ [][(backend = None /\ last'.op \in PassThroughOps) =>
            /\ last'.result = SecureStorageApiError("InternalError")
            /\ UNCHANGED <<backend, data, platform, keys>>]_vars

C27_Witness ==
    /\ backend = "memory"
    /\ last.op = "secure_storage_delete"
    /\ last.initialized
    /\ last.key = "test_key"
    /\ last.result = Ok
    /\ secure_storage_get(S, "test_key", NoFault).result.error_type = "KeyNotFound"


(***************************************************************************)
(* Properties of the order of the session manager's storage calls          *)
(* (SpecClient).                                                           *)
(***************************************************************************)

(* C28 as stated: after a successful protocol login the records are        *)
(* written in the order access token, user id, device id, refresh token    *)
(* if present, a failed write ending the sequence.                         *)
C28_WritesRefreshLast ==
    (last.op = "login" /\ last.proto.ok) =>
        LET order == <<ACCESS_TOKEN, USER_ID, DEVICE_ID>>
                        \o (IF last.proto.refresh_token # None THEN <<REFRESH_TOKEN>> ELSE <<>>)
        IN  /\ Len(last.writes) <= Len(order)
            /\ last.writes = SubSeq(order, 1, Len(last.writes))

(* C28 amended: after a successful protocol login the records are written  *)
(* in the order access token, refresh token if present, user id, device    *)
(* id; a write that fails at position i ends the sequence, the records of  *)
(* the positions before i hold the values of this login and the records    *)
(* of position i and after are as they were before the call.               *)
C28_WritesInCodeOrder ==
    /\ \A p \in LoginResponses, fs \in OneFault(backend) :
          LET o == login(C, S, p, fs)
              order == LoginOrder(p)
              n == Len(o.writes)
          IN  /\ n >= 1 /\ n <= Len(order)
              /\ o.writes = SubSeq(order, 1, n)
              /\ o.result = Ok =>
                    /\ n = Len(order)
                    /\ \A i \in 1..n : Prior(o.s, order[i]) = LoginValue(p, order[i])
              /\ o.result # Ok =>
                    /\ fs[order[n]] # NoFault
                    /\ \A i \in 1..(n - 1) : fs[order[i]] = NoFault
                    /\ \A i \in 1..(n - 1) : Prior(o.s, order[i]) = LoginValue(p, order[i])
                    /\ \A i \in n..Len(order) : Prior(o.s, order[i]) = Prior(S, order[i])
              /\ p.refresh_token = None => Prior(o.s, REFRESH_TOKEN) = Prior(S, REFRESH_TOKEN)
    /\ (last.op = "login" /\ last.proto.ok) =>
          LET order == LoginOrder(last.proto)
              n == Len(last.writes)
          IN  /\ last.writes = SubSeq(order, 1, n)
              /\ \A i \in 1..(n - 1) : Prior(S, order[i]) = LoginValue(last.proto, order[i])
              /\ last.result = Ok => n = Len(order)

C28_Witness ==
    /\ last.op = "login"
    /\ last.proto.ok
    /\ last.proto.refresh_token = "refresh2"
    /\ last.result.kind = "Err"
    /\ last.writes = <<ACCESS_TOKEN, REFRESH_TOKEN, USER_ID>>
    /\ Prior(S, ACCESS_TOKEN) = "syt_token2"
    /\ Prior(S, REFRESH_TOKEN) = "refresh2"
    /\ USER_ID \notin DOMAIN Stored(S)

(* C29: in logout, whichever of the deletes return an error, each of the   *)
(* four credential keys is deleted exactly once, in the order of           *)
(* AuthKeys::all(); the deletes after a failed one are still made, so      *)
(* every key whose delete succeeded is absent afterwards and only the      *)
(* records whose delete failed are left as they were.                      *)
C29_LogoutDeletesAreIndependent ==
    /\ \A remote_ok \in BOOLEAN, fs \in LogoutFaults(backend) :
          (\A k \in AuthKeys : ~Unwinds(backend, fs[k])) =>
              LET o == logout(C, S, remote_ok, fs)
                  bad == {k \in AuthKeys : StorageDelete(S, k, fs[k]).result # Ok}
              IN  /\ o.deletes = AuthKeysAll
                  /\ o.failed = bad
                  /\ \A k \in AuthKeys \ bad : k \notin DOMAIN Stored(o.s)
                  /\ \A k \in bad : Prior(o.s, k) = Prior(S, k)
    /\ (last.op = "logout" /\ last.result # Panic) =>
          /\ last.deletes = AuthKeysAll
          /\ \A k \in AuthKeys \ last.failed : k \notin DOMAIN Stored(S)
          /\ AuthKeys \cap DOMAIN Stored(S) = last.failed \cap last.pre_keys

C29_Witness ==
    /\ last.op = "logout"
    /\ last.result = Ok
    /\ last.pre_keys = AuthKeys
    /\ last.failed = {ACCESS_TOKEN}
    /\ last.deletes = AuthKeysAll
    /\ DOMAIN Stored(S) = {ACCESS_TOKEN}


(***************************************************************************)
(* Properties of key tracking (SpecStore).                                 *)
(***************************************************************************)

(* C30: on a key-tracking backend the tracked-key set is, in every state,  *)
(* the set of keys whose latest operation that succeeded through this      *)
(* instance was a set; a set that returns Ok adds its key, a delete that   *)
(* returns Ok (the entry existed or the platform had no entry) removes its *)
(* key, and a set or delete that fails and every get leave the set as it   *)
(* was.                                                                    *)
C30_TrackedKeysInSync ==
    /\ [](backend \in Tracking => keys = DOMAIN expect)
    /\ [][(backend \in Tracking) =>
            (/\ (last'.op = "set" /\ last'.result = Ok) => keys' = keys \cup {last'.key}
             /\ (last'.op = "delete" /\ last'.result = Ok) => keys' = keys \ {last'.key}
             /\ (last'.op \in {"set", "delete"} /\ last'.result # Ok) => keys' = keys
             /\ last'.op = "get" => keys' = keys)]_vars

C30_Witness ==
    /\ backend = "windows"
    /\ last.op = "delete"
    /\ last.result.kind = "AccessDenied"
    /\ keys = {last.key}
    /\ DOMAIN expect = {last.key}
    /\ Cardinality(written) = 2


(***************************************************************************)
(* Properties of concurrent callers on a key-tracking backend (SpecRace).  *)
(***************************************************************************)

(* C31: under every interleaving of concurrent set, delete and clear calls *)
(* on one instance, once all calls have returned every key that is in the  *)
(* platform store and was written through the instance is tracked, so a    *)
(* clear that then returns Ok leaves get of the key failing with           *)
(* KeyNotFound.                                                            *)
C31_TrackedAfterConcurrentCalls ==
    (\A i \in Callers : procs[i].pc = "done") =>
        /\ \A k \in written \cap DOMAIN platform : k \in keys
        /\ \A order \in Orders(keys) :
              LET o == StorageClear(S, order, [k \in keys |-> NoFault])
              IN  o.result = Ok =>
                      \A k \in written : StorageGet(o.s, k, NoFault).result = KeyNotFound(k)


(***************************************************************************)
(* Properties of the native adapters' error mapping (SpecStore).           *)
(***************************************************************************)

(* The platform refused the call for lack of authorisation, or the user    *)
(* dismissed the authorisation prompt.                                     *)
AuthFailureOrCancel(b, f) ==
    /\ f.at = "call"
    /\ IF b = "keychain"
       THEN f.code \in {errSecAuthFailed, userCanceledErr}
       ELSE f.err = "PlatformFailure" /\ f.msg \cap {"access", "denied", "cancelled"} # {}

(* C32: on every native adapter a platform "not found" makes get fail with *)
(* KeyNotFound and delete return Ok; an authorisation failure or a user    *)
(* cancel answered by the platform call makes set, get and delete fail     *)
(* with AccessDenied, never succeed; every other error of the platform     *)
(* call makes them fail with one of the taxonomy's errors.                 *)
C32_NativeErrorMapping ==
    backend \in {"keychain", "windows", "linux"} =>
        \A k \in UserKeys :
            /\ k \notin DOMAIN platform =>
                  /\ StorageGet(S, k, NoFault).result = KeyNotFound(k)
                  /\ StorageDelete(S, k, NoFault).result = Ok
            /\ \A f \in {g \in FaultsOf(backend) : g.at = "call"} :
                  \A r \in {StorageSet(S, k, "test_value", f).result,
                             StorageGet(S, k, f).result, StorageDelete(S, k, f).result} :
                      IF AuthFailureOrCancel(backend, f)
                      THEN r = AccessDenied(k)
                      ELSE r.kind \in ErrorKinds


(***************************************************************************)
(* Properties of the construction of the Linux adapter (SpecApi).          *)
(***************************************************************************)

(* C33: LinuxStorage::new hands out a usable backend only when the probe   *)
(* of the sentinel returned a value or "no entry"; after every other probe *)
(* outcome construction fails, so the handle of the call is not the Linux  *)
(* adapter; and a construction whose probe reached the store leaves no     *)
(* sentinel record in it.                                                  *)
C33_ProbeDecidesConstruction ==
    (host = "linux" /\ last.op # "new") =>
        /\ last.handle = "linux" <=> last.probe.at = "none"
        /\ last.probe.at = "none" => Sentinel \notin DOMAIN platform


(***************************************************************************)
(* Properties of sync and of a new client (SpecClient).                    *)
(***************************************************************************)

(* C34: sync on a client that is not logged in fails with the error "Sync  *)
(* requires authentication" and makes no network call; a client that was   *)
(* just constructed is not logged in.                                      *)
C34_SyncRequiresLogin ==
    /\ (last.op = "sync" /\ ~last.pre_logged_in) =>
          /\ last.result = Err("Sync requires authentication - please login first", None)
          /\ last.calls = <<>>
    /\ last.op = "new" => ~is_logged_in(C)

C34_Witness ==
    /\ last.op = "sync"
    /\ ~last.pre_logged_in
    /\ last.result.kind = "Err"
    /\ AuthKeys \cap DOMAIN platform # {}


(***************************************************************************)
(* Properties of the API logout (SpecApi).                                 *)
(***************************************************************************)

(* C35: an API logout that obtained its storage handle and its client      *)
(* deletes the stored credentials and returns Ok whatever its              *)
(* restore_session answered: an error because the stored session is        *)
(* partial or malformed, "no session", or success.  The remote logout call *)
(* is made exactly if that restore succeeded, hence whenever the handle    *)
(* held a complete, well-formed session that the protocol client accepts.  *)
C35_ApiLogoutCleansUpWhateverRestoreDid ==
    (last.op = "api_logout" /\ last.restored.kind \in {"Ok", "Err"} /\ last.result # Panic) =>
        /\ last.result = Ok
        /\ AuthKeys \cap DOMAIN Stored(S) = {}
        /\ last.remote <=> last.restored = OkValue(TRUE)
        /\ ( /\ {ACCESS_TOKEN, USER_ID, DEVICE_ID} \subseteq DOMAIN last.pre
             /\ last.pre[USER_ID] \in WellFormedUserIds
             /\ last.proto_ok ) => last.remote


(***************************************************************************)
(* Properties of the refresh-token record across logins (SpecClient).      *)
(***************************************************************************)

(* C36: after a successful login whose response carries no refresh token   *)
(* no refresh-token record is stored, whatever the store held before the   *)
(* login, so that a later restore_session cannot pair the new access token *)
(* with the refresh token of another login.                                *)
C36_NoStaleRefreshToken ==
    (last.op = "login" /\ last.result = Ok /\ last.proto.refresh_token = None) =>
        REFRESH_TOKEN \notin DOMAIN Stored(S)


(***************************************************************************)
(* Frame properties of restore_session and of a refused login              *)
(* (SpecRestore).                                                          *)
(***************************************************************************)

(* C37: a restore_session that returns an error or "no session", and a     *)
(* login whose protocol step fails, leave the user id and the device id of *)
(* the client exactly as they were; restore_session, whatever it returns,  *)
(* only reads: the storage instance is after the call as it was before.    *)
C37_FailedSessionStepsChangeNothing ==
    [][(/\ (last'.op = "restore" /\ last'.result # OkValue(TRUE)) => C' = C
        /\ last'.op = "restore" => S' = S
        /\ (last'.op = "login" /\ ~last'.proto.ok) => (C' = C /\ S' = S))]_vars

C37_Witness ==
    /\ last.op = "restore"
    /\ last.result.kind = "Err"
    /\ ~last.proto_ok
    /\ last.reads = <<ACCESS_TOKEN, USER_ID, DEVICE_ID, REFRESH_TOKEN>>
    /\ is_logged_in(last.pre)
    /\ C = last.pre


(***************************************************************************)
(* Properties of a login concurrent with a logout (SpecSession).           *)
(***************************************************************************)

(* C38: when one manager runs login while another runs logout on the same  *)
(* in-memory store, then under every interleaving of their set and delete  *)
(* steps the store they leave never holds an access-token record without   *)
(* both the user-id and the device-id record.                              *)
C38_CredentialsAreOneUnit ==
    (\A i \in Managers : SessionDone(i)) =>
        (ACCESS_TOKEN \in DOMAIN Stored(S) => {USER_ID, DEVICE_ID} \subseteq DOMAIN Stored(S))


(***************************************************************************)
(* Properties of the order of the steps of logout (SpecClient).            *)
(***************************************************************************)

(* C39: logout makes the remote logout call exactly when the client is     *)
(* LoggedIn, before its deletes; on a LoggedOut client it makes no remote  *)
(* call and still runs the four deletes; a second logout right after a     *)
(* first makes no remote call and leaves the store as it was.              *)
C39_LogoutStepsAndSecondLogout ==
    (last.op = "logout" /\ last.result # Panic) =>
        /\ last.remote <=> last.pre_logged_in
        /\ last.deletes = AuthKeysAll
        /\ last.after_logout => (~last.remote /\ ~last.store_changed)


(***************************************************************************)
(* Properties of the global handle (SpecHandle).                           *)
(***************************************************************************)

(* C40: once a handle is installed, is_secure_storage_initialized answers  *)
(* true in every later state: no step of the API removes the handle; an    *)
(* initialize_secure_storage that fails leaves the installed handle as it  *)
(* was; and a pass-through call that runs while another caller initializes *)
(* again runs from its first step to its return against the handle it      *)
(* found when it began.  (create_secure_storage has no failing outcome on  *)
(* any host: the Linux build falls back and the other constructors cannot  *)
(* fail, so the error return of initialize_secure_storage is a branch no   *)
(* run takes.)                                                             *)
C40_HandleStaysAndCallsSeeOneHandle ==
    /\ [](procs.op.pc \in {"call", "return"} =>
            (procs.op.gen = procs.gen /\ is_secure_storage_initialized(S)))
    /\ [][(/\ is_secure_storage_initialized(S) => is_secure_storage_initialized(S')
           /\ (last'.op = "initialize_secure_storage" /\ last'.result # Ok) =>
                 (backend' = backend /\ data' = data /\ keys' = keys
                  /\ procs'.gen = procs.gen))]_vars

C40_Witness ==
    /\ procs.op.pc = "return"
    /\ procs.init.pc = "write"
    /\ procs.gen = 1
    /\ procs.op.gen = 1
    /\ is_secure_storage_initialized(S)

====
